---- MODULE Spec2Model ----
(***************************************************************************)
(* Remote deployment orchestrator of ClaraVerse                            *)
(* (electron/remoteServerIPC.cjs, class ClaraCoreRemoteService).           *)
(*                                                                         *)
(* Text is a sequence of atoms.  An atom is a piece of text the code never *)
(* looks inside: a word, a punctuation sign, a blank.  String operations   *)
(* of the code (includes, trim, replace, startsWith, substring) are        *)
(* computed on these sequences.                                            *)
(***************************************************************************)
EXTENDS Naturals, Integers, Sequences, FiniteSets, TLC

VARIABLES
    \* ---- detectHardware(conn) ----
    dpc,            \* probe awaited by detectHardware, or "returned" / "threw"
    probeOut,       \* what each probe reported so far (label -> text)
    details,        \* the details object of detectHardware
    detectResult,   \* the value detectHardware returned
    \* ---- deploy(config): the configuration and the remote host ----
    hardwareType,   \* config.hardwareType
    password,       \* config.password, the secret
    hostArch,       \* what `uname -m` prints on the target host
    hostDocker,     \* Docker is installed on the target host
    \* ---- deploy(config): the promise, the watchdog and the session ----
    connState,      \* "connecting" | "open" | "closed"
    endCount,       \* number of conn.end() calls
    timer,          \* the 5-minute watchdog: "armed" | "fired" | "cleared"
    isResolved,     \* the isResolved flag
    settled,        \* "pending" | "resolved" | "rejected"
    result,         \* the value deploy's promise settled with
    sudoPassword,   \* this.sudoPassword: [set |-> FALSE] is null
    \* ---- deploy(config): the 'ready' handler ----
    pc,             \* "idle", the command or sleep awaited, or "done"
    sent,           \* the awaited command went out on an open session
    lastCmd,        \* the text handed to conn.exec for the awaited command
    lastLogs,       \* the messages logged by the last step
    steps,          \* the deployment steps entered so far, in order
    hasDocker,      \* local hasDocker of deploy
    user,           \* local user of installDocker / setupCuda
    hasApt,         \* local hasApt of setupCuda
    logsOut,        \* local logs of deploy (docker logs output)
    isRunning,      \* local isRunning of deploy (docker ps -q output)
    allOk,          \* every command so far exited 0 on an open session
    lastReturn,     \* how the last awaited call came back to the handler
    inFlight,       \* streams opened by conn.exec that have not closed yet
    \* ---- testSetup(config) ----
    testConn,       \* conn: "none" | "connecting" | "open" | "closed"
    testEnds,       \* number of conn.end() calls
    testTimer,      \* the 30-second watchdog: "armed" | "fired" | "cleared"
    testIsResolved, \* the isResolved flag
    testSettled,    \* "pending" | "resolved" | "rejected"
    testResult,     \* the value testSetup's promise settled with
    testLog,        \* the messages logged by the last step of testSetup
    \* ---- setupRemoteServerIPC: one invocation of an IPC handler ----
    ipcHandler,     \* the channel invoked, or "none"
    ipcHasStop,     \* stopLocalServicesCallback was given (is not null)
    ipcPc,          \* "idle" | "invoked" | "stopping" | "service" | "done"
    ipcStopResult,  \* local stopResult of the deploy handler
    ipcRaised,      \* message of the error raised inside the handler, if any
    ipcReturn,      \* how the handler came back to its caller
    ipcLog,         \* the messages logged by the last step of the handler
    ipcTrace,       \* the awaited calls of the handler: made, and come back
    \* ---- RemoteServerSetup: startDeployment ----
    uiPc,           \* "idle", or the call startDeployment awaits
    uiIsDeploying,  \* state isDeploying (disables the Deploy button)
    uiListeners,    \* log callbacks registered through onLog, not yet removed
    uiRuns,         \* number of startDeployment calls so far
    uiHasStore,     \* window.electron.store.set is available
    uiStep,         \* state deploymentStep
    uiCompleted,    \* state completedSteps
    uiLogsAdded,    \* addLog calls made by the last step
    uiOutcome,      \* how the last startDeployment ended
    \* ---- ClaraCoreService ----
    ccWin,          \* os.platform() === 'win32'
    ccIsRunning,    \* this.isRunning
    ccIsStarting,   \* this.isStarting
    ccStopped,      \* this.isIntentionallyStopped
    ccAttempts,     \* this.restartAttempts
    ccTimers,       \* auto-restart timeouts set and neither fired nor cleared
    ccTimerRef,     \* this.restartTimer is not null
    ccProcess,      \* this.process: the pid of the child it refers to, 0 for null
    ccLastError,    \* this.lastError: "none" | "other" | "bind"
    ccProcs,        \* each child: "none" | "live" | "exit0" | "exit1" | "exitNull" | "gone"
    ccPort,         \* who holds port 8091
    ccCalls,        \* the start / stop / restart calls and where each one is
    ccCount,        \* number of calls made so far
    ccScheduled,    \* auto-restart timeouts set so far (line 1194)
    \* ---- two deploy invocations on one service instance ----
    ovConfig,       \* config.password of each invocation
    ovPc,           \* where each invocation is
    ovLeft,         \* elevated commands each invocation may still issue
    ovSudo,         \* this.sudoPassword of the shared instance
    ovCmd,          \* the last elevated command handed to conn.exec
    ovBy,           \* the invocation that issued it
    \* ---- the containers on one host over several deployments ----
    hostContainers, \* each container name: absent | created | exited | running
    hdKind,         \* config.hardwareType of the deployment under way
    hdPc,           \* the docker command the deployment is at
    hdRuns,         \* deployments started so far
    hdOutcome       \* how the last deployment ended

detectVars == <<dpc, probeOut, details, detectResult>>

deployVars ==
    <<hardwareType, password, hostArch, hostDocker, connState, endCount, timer, isResolved,
      settled, result, sudoPassword, pc, sent, lastCmd, lastLogs, steps,
      hasDocker, user, hasApt, logsOut, isRunning, allOk, lastReturn, inFlight>>

testVars ==
    <<testConn, testEnds, testTimer, testIsResolved, testSettled, testResult, testLog>>

ipcVars ==
    <<ipcHandler, ipcHasStop, ipcPc, ipcStopResult, ipcRaised, ipcReturn, ipcLog,
      ipcTrace>>

uiVars ==
    <<uiPc, uiIsDeploying, uiListeners, uiRuns, uiHasStore, uiStep, uiCompleted,
      uiLogsAdded, uiOutcome>>

ccVars ==
    <<ccWin, ccIsRunning, ccIsStarting, ccStopped, ccAttempts, ccTimers, ccTimerRef,
      ccProcess, ccLastError, ccProcs, ccPort, ccCalls, ccCount, ccScheduled>>

ovVars == <<ovConfig, ovPc, ovLeft, ovSudo, ovCmd, ovBy>>

hostVars == <<hostContainers, hdKind, hdPc, hdRuns, hdOutcome>>

vars == <<detectVars, deployVars, testVars, ipcVars, uiVars, ccVars, ovVars, hostVars>>

\* what the steps of one operation leave alone
outsideDeploy == <<detectVars, testVars, ipcVars, uiVars, ccVars, ovVars, hostVars>>
outsideTest == <<deployVars, ipcVars, uiVars, ccVars, ovVars, hostVars>>
outsideIpc == <<detectVars, deployVars, testVars, uiVars, ccVars, ovVars, hostVars>>
outsideUi == <<detectVars, deployVars, testVars, ipcVars, ccVars, ovVars, hostVars>>
outsideCc == <<detectVars, deployVars, testVars, ipcVars, uiVars, ovVars, hostVars>>
outsideHost == <<detectVars, deployVars, testVars, ipcVars, uiVars, ccVars, ovVars>>
outsideOv == <<detectVars, deployVars, testVars, ipcVars, uiVars, ccVars, hostVars>>

----------------------------------------------------------------------------
(* Text helpers *)

Empty == <<>>

SetMin(S) == CHOOSE x \in S : \A y \in S : x <= y
SetMax(S) == CHOOSE x \in S : \A y \in S : x >= y

\* String.prototype.includes
Includes(s, p) ==
    \E i \in 0..(Len(s) - Len(p)) : SubSeq(s, i + 1, i + Len(p)) = p

IsWs(a) == a \in {" ", "\n"}

\* String.prototype.trim
Trim(s) ==
    LET keep == {i \in 1..Len(s) : ~IsWs(s[i])}
    IN  IF keep = {} THEN Empty ELSE SubSeq(s, SetMin(keep), SetMax(keep))

\* JavaScript truthiness of a string
Truthy(s) == s # Empty

\* String.prototype.startsWith
StartsWith(s, p) == Len(s) >= Len(p) /\ SubSeq(s, 1, Len(p)) = p

\* s.replace(p, r) with a string pattern: the first occurrence only
ReplaceFirst(s, p, r) ==
    IF ~Includes(s, p) \/ p = Empty THEN s
    ELSE LET i == SetMin({k \in 0..(Len(s) - Len(p)) : SubSeq(s, k + 1, k + Len(p)) = p})
         IN  SubSeq(s, 1, i) \o r \o SubSeq(s, i + Len(p) + 1, Len(s))

\* the two atoms of the command s that follow its first occurrence of p
After(s, p) ==
    IF ~Includes(s, p) THEN Empty
    ELSE LET i == SetMin({k \in 0..(Len(s) - Len(p)) : SubSeq(s, k + 1, k + Len(p)) = p})
         IN  SubSeq(s, i + Len(p) + 1, i + Len(p) + 2)

\* s.replace(/a/g, r) for a one-atom pattern: every occurrence
RECURSIVE ReplaceAll(_, _, _)
ReplaceAll(s, a, r) ==
    IF s = Empty THEN Empty
    ELSE (IF Head(s) = a THEN r ELSE <<Head(s)>>) \o ReplaceAll(Tail(s), a, r)

\* words joined by single blanks
RECURSIVE W(_)
W(ws) ==
    IF Len(ws) = 0 THEN Empty
    ELSE IF Len(ws) = 1 THEN <<ws[1]>>
    ELSE <<ws[1], " ">> \o W(Tail(ws))

\* clearTimeout(timeout)
ClearTimeout(t) == IF t = "armed" THEN "cleared" ELSE t

CommandNotFound == <<"command not found">>

----------------------------------------------------------------------------
(* detectHardware: the probes and what the remote host may answer *)

ProbeLabels == {"arch", "docker", "nvidia", "cuda", "rocm", "rocmVersion", "cpu"}

\* Answers of execCommand: the text it resolves with (output || errorOutput)
ArchAnswers ==
    { <<"x86_64", "\n">>, <<"aarch", "64", "\n">>, <<"arm", "v7l", "\n">>, Empty }

DockerAnswers ==
    { <<"Docker version 24", "\n">>, Empty, <<"bash: docker: ">> \o CommandNotFound }

NvidiaAnswers ==
    { <<"NVIDIA GeForce RTX", "\n">>, Empty, <<"\n">>,
      <<"bash: nvidia-smi: ">> \o CommandNotFound }

CudaAnswers == { <<"12.4", ",", "\n">>, <<",">>, Empty }

RocmAnswers ==
    { <<"Card series: Radeon", "\n">>, Empty, <<"bash: rocm-smi: ">> \o CommandNotFound }

RocmVersionAnswers == { <<"6.1", "\n">>, Empty }

CpuAnswers ==
    { <<"Model name:", " ", "AMD", " ", "Ryzen AI Max", "+", " ", "395", "\n">>,
      <<"Model name:", " ", "AMD", " ", "Ryzen", " ", "8040", "\n">>,
      <<"Model name:", " ", "Intel Core", "\n">>,
      Empty }

ProbeAnswers(l) ==
    CASE l = "arch" -> ArchAnswers
      [] l = "docker" -> DockerAnswers
      [] l = "nvidia" -> NvidiaAnswers
      [] l = "cuda" -> CudaAnswers
      [] l = "rocm" -> RocmAnswers
      [] l = "rocmVersion" -> RocmVersionAnswers
      [] l = "cpu" -> CpuAnswers

\* A probe either resolves with text or rejects (conn.exec reported an error)
ProbeOutcomes(l) ==
    { [rejected |-> FALSE, out |-> a] : a \in ProbeAnswers(l) }
        \cup { [rejected |-> TRUE, out |-> Empty] }

NotProbed == <<"<not probed>">>

InitDetails ==
    [ docker |-> FALSE, nvidia |-> FALSE, rocm |-> FALSE, strix |-> FALSE,
      architecture |-> <<"unknown">>, dockerVersion |-> Empty, gpuInfo |-> Empty,
      cudaVersion |-> Empty, rocmVersion |-> Empty, cpuModel |-> Empty ]

NoResult ==
    [ detected |-> "none", confidence |-> "none", error |-> Empty,
      unsupportedReason |-> "none" ]

\* nvidiaInfo && !nvidiaInfo.includes('command not found') && nvidiaInfo.trim()
ToolReportsDevice(info) ==
    Truthy(info) /\ ~Includes(info, CommandNotFound) /\ Truthy(Trim(info))

\* dockerVersion && !dockerVersion.includes('command not found')
DockerPresent(out) == Truthy(out) /\ ~Includes(out, CommandNotFound)

StrixSignatures == { <<"Ryzen AI Max">>, <<"Strix">>, <<"8040">> }

\* cpuInfo.includes('Ryzen AI Max') || cpuInfo.includes('Strix') || cpuInfo.includes('8040')
IsStrixCpu(cpuInfo) == \E sig \in StrixSignatures : Includes(cpuInfo, sig)

IsARM_onlyArm(architecture) == Includes(architecture, <<"arm">>)

\* details.architecture.includes('arm') || details.architecture.includes('aarch')
IsARM(architecture) ==
    Includes(architecture, <<"arm">>) \/ Includes(architecture, <<"aarch">>)

ArmError(architecture) ==
    <<"ARM architecture (">> \o architecture
        \o <<") is not supported yet. ClaraCore Docker images are currently only available for x86_64/amd64 architecture.">>

Recommend_strixFirst(d) ==
    IF d.strix THEN [detected |-> "strix", confidence |-> "high"]
    ELSE IF d.nvidia
         THEN [detected |-> "cuda",
               confidence |-> IF Truthy(d.cudaVersion) THEN "high" ELSE "medium"]
    ELSE IF d.rocm THEN [detected |-> "rocm", confidence |-> "high"]
    ELSE [detected |-> "cpu", confidence |-> "high"]

Recommend_rocmBeforeStrix(d) ==
    IF d.nvidia
    THEN [detected |-> "cuda",
          confidence |-> IF Truthy(d.cudaVersion) THEN "high" ELSE "medium"]
    ELSE IF d.rocm THEN [detected |-> "rocm", confidence |-> "high"]
    ELSE IF d.strix THEN [detected |-> "strix", confidence |-> "high"]
    ELSE [detected |-> "cpu", confidence |-> "high"]

\* "Determine recommendation": nvidia, else strix, else rocm, else cpu
Recommend(d) ==
    IF d.nvidia
    THEN [detected |-> "cuda",
          confidence |-> IF Truthy(d.cudaVersion) THEN "high" ELSE "medium"]
    ELSE IF d.strix THEN [detected |-> "strix", confidence |-> "high"]
    ELSE IF d.rocm THEN [detected |-> "rocm", confidence |-> "high"]
    ELSE [detected |-> "cpu", confidence |-> "high"]

\* The tail of detectHardware, run once the last probe has answered
Classify(d) ==
    IF IsARM(d.architecture)
    THEN [ detected |-> "unsupported", confidence |-> "high",
           error |-> ArmError(d.architecture), unsupportedReason |-> "arm" ]
    ELSE [ detected |-> Recommend(d).detected, confidence |-> Recommend(d).confidence,
           error |-> Empty, unsupportedReason |-> "none" ]

DetectInit ==
    /\ dpc = "arch"
    /\ probeOut = [l \in ProbeLabels |-> NotProbed]
    /\ details = InitDetails
    /\ detectResult = NoResult

\* A probe whose execCommand rejects makes detectHardware rethrow
DetectThrows(l) ==
    /\ dpc' = "threw"
    /\ UNCHANGED <<probeOut, details, detectResult>>

NoTestResult == [success |-> FALSE, error |-> Empty]

\* the message of the Error a rejected probe hands to testSetup's catch
ProbeError == IF testConn = "open" THEN <<"(SSH) Channel open failure">>
              ELSE <<"Not connected">>

\* testSetup's 'ready' handler after `await this.detectHardware(conn)`:
\* lines 122-131 when it returned, lines 133-142 when it threw.  It runs in
\* the turn in which detectHardware finishes.
TestSetupResumes ==
    IF testConn = "none" \/ dpc' \notin {"returned", "threw"}
    THEN UNCHANGED testVars
    ELSE /\ testTimer' = ClearTimeout(testTimer)
         /\ testEnds' = testEnds + 1
         /\ testConn' = "closed"
         /\ testIsResolved' = TRUE
         /\ IF ~testIsResolved
            THEN /\ testSettled' = "resolved"
                 /\ testResult' = IF dpc' = "returned"
                                  THEN [success |-> TRUE, error |-> Empty]
                                  ELSE [success |-> FALSE, error |-> ProbeError]
            ELSE UNCHANGED <<testSettled, testResult>>
         /\ testLog' = IF dpc' = "threw"
                       THEN { <<"Hardware detection error: ">> \o ProbeError }
                       ELSE {}

\* detectHardware does not touch the state of a deployment; when testSetup
\* awaits it, testSetup goes on as soon as it finishes
DetectFrame == UNCHANGED outsideTest /\ TestSetupResumes

ProbeArch ==
    /\ dpc = "arch"
    /\ \E o \in ProbeOutcomes("arch") :
         IF o.rejected THEN DetectThrows("arch")
         ELSE /\ probeOut' = [probeOut EXCEPT !["arch"] = o.out]
              /\ details' = IF Truthy(o.out)
                            THEN [details EXCEPT !.architecture = Trim(o.out)]
                            ELSE details
              /\ dpc' = "docker"
              /\ UNCHANGED detectResult
    /\ DetectFrame

ProbeDocker ==
    /\ dpc = "docker"
    /\ \E o \in ProbeOutcomes("docker") :
         IF o.rejected THEN DetectThrows("docker")
         ELSE /\ probeOut' = [probeOut EXCEPT !["docker"] = o.out]
              /\ details' = IF DockerPresent(o.out)
                            THEN [details EXCEPT !.docker = TRUE,
                                                 !.dockerVersion = Trim(o.out)]
                            ELSE details
              /\ dpc' = "nvidia"
              /\ UNCHANGED detectResult
    /\ DetectFrame

ProbeNvidia ==
    /\ dpc = "nvidia"
    /\ \E o \in ProbeOutcomes("nvidia") :
         IF o.rejected THEN DetectThrows("nvidia")
         ELSE /\ probeOut' = [probeOut EXCEPT !["nvidia"] = o.out]
              /\ details' = IF ToolReportsDevice(o.out)
                            THEN [details EXCEPT !.nvidia = TRUE, !.gpuInfo = Trim(o.out)]
                            ELSE details
              /\ dpc' = IF ToolReportsDevice(o.out) THEN "cuda" ELSE "rocm"
              /\ UNCHANGED detectResult
    /\ DetectFrame

ProbeCuda ==
    /\ dpc = "cuda"
    /\ \E o \in ProbeOutcomes("cuda") :
         IF o.rejected THEN DetectThrows("cuda")
         ELSE /\ probeOut' = [probeOut EXCEPT !["cuda"] = o.out]
              /\ details' = IF Truthy(o.out) /\ Truthy(Trim(o.out))
                            THEN [details EXCEPT
                                    !.cudaVersion = ReplaceFirst(Trim(o.out), <<",">>, Empty)]
                            ELSE details
              /\ dpc' = "rocm"
              /\ UNCHANGED detectResult
    /\ DetectFrame

ProbeRocm ==
    /\ dpc = "rocm"
    /\ \E o \in ProbeOutcomes("rocm") :
         IF o.rejected THEN DetectThrows("rocm")
         ELSE /\ probeOut' = [probeOut EXCEPT !["rocm"] = o.out]
              /\ details' = IF ToolReportsDevice(o.out)
                            THEN [details EXCEPT !.rocm = TRUE]
                            ELSE details
              /\ dpc' = IF ToolReportsDevice(o.out) THEN "rocmVersion" ELSE "cpu"
              /\ UNCHANGED detectResult
    /\ DetectFrame

ProbeRocmVersion ==
    /\ dpc = "rocmVersion"
    /\ \E o \in ProbeOutcomes("rocmVersion") :
         IF o.rejected THEN DetectThrows("rocmVersion")
         ELSE /\ probeOut' = [probeOut EXCEPT !["rocmVersion"] = o.out]
              /\ details' = IF Truthy(o.out) /\ Truthy(Trim(o.out))
                            THEN [details EXCEPT !.rocmVersion = Trim(o.out)]
                            ELSE details
              /\ dpc' = "cpu"
              /\ UNCHANGED detectResult
    /\ DetectFrame

\* The last probe; the classification runs in the same turn
ProbeCpu ==
    /\ dpc = "cpu"
    /\ \E o \in ProbeOutcomes("cpu") :
         IF o.rejected THEN DetectThrows("cpu")
         ELSE LET d == IF Truthy(o.out)
                       THEN [details EXCEPT
                               !.cpuModel = Trim(ReplaceFirst(o.out, <<"Model name:">>, Empty)),
                               !.strix = IsStrixCpu(o.out)]
                       ELSE details
              IN  /\ probeOut' = [probeOut EXCEPT !["cpu"] = o.out]
                  /\ details' = d
                  /\ detectResult' = Classify(d)
                  /\ dpc' = "returned"
    /\ DetectFrame

DetectNext ==
    \/ ProbeArch
    \/ ProbeDocker
    \/ ProbeNvidia
    \/ ProbeCuda
    \/ ProbeRocm
    \/ ProbeRocmVersion
    \/ ProbeCpu


----------------------------------------------------------------------------
(* deploy(config): names, commands and the composition of sudo commands *)

\* the kinds buildDockerRunCommand knows, and one it does not
HardwareTypes == {"cpu", "cuda", "rocm", "strix", "tpu"}

\* Secrets: one without and one with a single quote
Passwords == { <<"p", "w">>, <<"p", "'", "w">> }

HostArchs == { <<"x86_64">>, <<"aarch", "64">> }

Port == 5890

PortText == <<ToString(Port)>>

LogExcerptLen == 500

\* `clara17verse/claracore:${hardwareType}`
ImageName(hw) == <<"clara17verse/claracore:", hw>>

\* `claracore-${hardwareType}`
ContainerName(hw) == <<"claracore-", hw>>

Labels ==
    { "dockerVersion",
      "osRelease", "curlScript", "runScript", "rmScript", "whoami1", "usermod1",
      "sysStart", "sysEnable",
      "nvidiaCheck", "whichCtk", "whichApt", "whichYum",
      "aptKey", "aptRepo", "aptUpdate", "aptInstall", "yumRepo", "yumInstall",
      "ctkConfigure", "daemonReload", "restartDocker", "sleep3", "contextShow",
      "contextUse", "whoami2", "usermod2", "runtimeCheck",
      "rocmGroups",
      "udevRules", "udevReload", "udevTrigger", "strixGroups",
      "dockerStop", "dockerRm", "dockerPull", "dockerRun", "sleep5", "dockerPs",
      "dockerLogs", "dockerInspect", "healthCheck" }

SleepLabels == {"sleep3", "sleep5"}

\* commands run through execCommandWithOutput; the others use execCommand
StreamLabels ==
    {"runScript", "aptKey", "aptRepo", "aptUpdate", "aptInstall", "yumRepo",
     "yumInstall", "dockerPull"}

InstallDockerLabels ==
    {"osRelease", "curlScript", "runScript", "rmScript", "whoami1", "usermod1",
     "sysStart", "sysEnable"}

SetupCudaLabels ==
    {"nvidiaCheck", "whichCtk", "whichApt", "whichYum", "aptKey", "aptRepo",
     "aptUpdate", "aptInstall", "yumRepo", "yumInstall", "ctkConfigure",
     "daemonReload", "restartDocker", "sleep3", "contextShow", "contextUse",
     "whoami2", "usermod2", "runtimeCheck"}

SetupLabels ==
    SetupCudaLabels \cup {"rocmGroups", "udevRules", "udevReload", "udevTrigger",
                          "strixGroups"}

StepOrder ==
    << "connecting", "checking-docker", "installing-prerequisites", "cleaning-up",
       "pulling-image", "deploying", "verifying", "complete" >>

\* the deployment step a command of the 'ready' handler belongs to
StepOf(l) ==
    IF l = "dockerVersion" THEN "checking-docker"
    ELSE IF l \in InstallDockerLabels \cup SetupLabels THEN "installing-prerequisites"
    ELSE IF l \in {"dockerStop", "dockerRm"} THEN "cleaning-up"
    ELSE IF l = "dockerPull" THEN "pulling-image"
    ELSE IF l = "dockerRun" THEN "deploying"
    ELSE "verifying"

BaseFlags(containerName) ==
    W(<<"docker", "run", "-d", "--name">>) \o <<" ">> \o containerName \o <<" ">>
        \o W(<<"--restart", "unless-stopped", "-p">>) \o <<" ">>
        \o PortText \o <<":">> \o PortText

Volume(hw) == <<"-v", " ", "claracore-", hw, "-downloads:/app/downloads">>

DeviceFlags_gpusForAll(hw) == W(<<"--gpus", "all">>)

DeviceFlags(hw) ==
    CASE hw = "cuda" -> W(<<"--gpus", "all">>)
      [] hw = "rocm" ->
           W(<<"--device=/dev/kfd", "--device=/dev/dri", "--group-add", "video",
               "--ipc=host", "--cap-add=SYS_PTRACE", "--security-opt",
               "seccomp=unconfined">>)
      [] hw = "strix" ->
           W(<<"--device=/dev/dri", "--group-add", "video", "--security-opt",
               "seccomp=unconfined">>)
      [] OTHER -> Empty

buildDockerRunCommand(hw, containerName, imageName) ==
    BaseFlags(containerName)
        \o (IF DeviceFlags(hw) = Empty THEN Empty ELSE <<" ">> \o DeviceFlags(hw))
        \o <<" ">> \o Volume(hw) \o <<" ">> \o imageName

Quiet == <<" ", "2>/dev/null">>

OrTrue == <<" ", "|", "|", " ", "true">>

UdevRulesText ==
    << "SUBSYSTEM==", "\"", "kfd", "\"", ", GROUP=", "\"", "render", "\"",
       ", MODE=", "\"", "0666", "\"", ", OPTIONS+=", "\"", "last_rule", "\"", "\n",
       "SUBSYSTEM==", "\"", "drm", "\"", ", KERNEL==", "\"", "card[0-9]*", "\"",
       ", GROUP=", "\"", "render", "\"", ", MODE=", "\"", "0666", "\"",
       ", OPTIONS+=", "\"", "last_rule", "\"" >>

\* the command text each step hands to execCommand / execCommandWithOutput
CommandText(l, hw, u) ==
    CASE l = "dockerVersion" -> W(<<"docker", "--version">>) \o Quiet
      [] l = "osRelease" -> W(<<"cat", "/etc/os-release">>)
      [] l = "curlScript" ->
           W(<<"curl", "-fsSL", "https://get.docker.com", "-o", "/tmp/get-docker.sh">>)
      [] l = "runScript" -> W(<<"sudo", "sh", "/tmp/get-docker.sh">>)
      [] l = "rmScript" -> W(<<"rm", "/tmp/get-docker.sh">>)
      [] l \in {"whoami1", "whoami2"} -> <<"whoami">>
      [] l \in {"usermod1", "usermod2"} ->
           W(<<"sudo", "usermod", "-aG", "docker">>) \o <<" ">> \o u
      [] l = "sysStart" -> W(<<"sudo", "systemctl", "start", "docker">>)
      [] l = "sysEnable" -> W(<<"sudo", "systemctl", "enable", "docker">>)
      [] l = "nvidiaCheck" -> <<"nvidia-smi">> \o Quiet
      [] l = "whichCtk" -> W(<<"which", "nvidia-ctk">>) \o Quiet
      [] l = "whichApt" -> W(<<"which", "apt-get">>) \o Quiet
      [] l = "whichYum" -> W(<<"which", "yum">>) \o Quiet
      [] l = "aptKey" ->
           W(<<"curl", "-fsSL", "https://nvidia.github.io/libnvidia-container/gpgkey",
               "|", "sudo", "gpg", "--dearmor", "-o",
               "/usr/share/keyrings/nvidia-container-toolkit-keyring.gpg">>)
      [] l = "aptRepo" ->
           W(<<"curl", "-s", "-L",
               "https://nvidia.github.io/libnvidia-container/stable/deb/nvidia-container-toolkit.list",
               "|", "sed">>)
             \o <<" ", "'",
                  "s#deb https://#deb [signed-by=/usr/share/keyrings/nvidia-container-toolkit-keyring.gpg] https://#g",
                  "'", " ">>
             \o W(<<"|", "sudo", "tee",
                    "/etc/apt/sources.list.d/nvidia-container-toolkit.list">>)
      [] l = "aptUpdate" -> W(<<"sudo", "apt-get", "update">>)
      [] l = "aptInstall" ->
           W(<<"sudo", "apt-get", "install", "-y", "nvidia-container-toolkit">>)
      [] l = "yumRepo" ->
           W(<<"curl", "-s", "-L",
               "https://nvidia.github.io/libnvidia-container/stable/rpm/nvidia-container-toolkit.repo",
               "|", "sudo", "tee", "/etc/yum.repos.d/nvidia-container-toolkit.repo">>)
      [] l = "yumInstall" ->
           W(<<"sudo", "yum", "install", "-y", "nvidia-container-toolkit">>)
      [] l = "ctkConfigure" ->
           W(<<"sudo", "nvidia-ctk", "runtime", "configure", "--runtime=docker">>)
      [] l = "daemonReload" -> W(<<"sudo", "systemctl", "daemon-reload">>)
      [] l = "restartDocker" -> W(<<"sudo", "systemctl", "restart", "docker">>)
      [] l = "contextShow" -> W(<<"docker", "context", "show">>) \o Quiet
      [] l = "contextUse" -> W(<<"docker", "context", "use", "default">>)
      [] l = "runtimeCheck" ->
           W(<<"docker", "info">>) \o Quiet \o <<" ">> \o W(<<"|", "grep", "-i", "runtime">>)
      [] l \in {"rocmGroups", "strixGroups"} ->
           W(<<"sudo", "usermod", "-a", "-G", "video,render", "$USER">>)
      [] l = "udevRules" ->
           <<"echo", " ", "'">> \o UdevRulesText \o <<"'", " ">>
             \o W(<<"|", "sudo", "tee", "/etc/udev/rules.d/99-amd-kfd.rules">>)
      [] l = "udevReload" -> W(<<"sudo", "udevadm", "control", "--reload-rules">>)
      [] l = "udevTrigger" -> W(<<"sudo", "udevadm", "trigger">>)
      [] l = "dockerStop" ->
           W(<<"docker", "stop">>) \o <<" ">> \o ContainerName(hw) \o Quiet \o OrTrue
      [] l = "dockerRm" ->
           W(<<"docker", "rm">>) \o <<" ">> \o ContainerName(hw) \o Quiet \o OrTrue
      [] l = "dockerPull" -> W(<<"docker", "pull">>) \o <<" ">> \o ImageName(hw)
      [] l = "dockerRun" ->
           buildDockerRunCommand(hw, ContainerName(hw), ImageName(hw))
      [] l = "dockerPs" ->
           W(<<"docker", "ps", "-q", "-f">>) \o <<" ", "name=">> \o ContainerName(hw)
      [] l = "dockerLogs" ->
           W(<<"docker", "logs">>) \o <<" ">> \o ContainerName(hw) \o <<" ", "2>&1">>
             \o <<" ", "|", "|", " ", "echo", " ", "\"", "No logs available", "\"">>
      [] l = "dockerInspect" ->
           W(<<"docker", "inspect">>) \o <<" ">> \o ContainerName(hw)
             \o <<" ", "--format=", "'", "{{.State.Status}}: {{.State.Error}}", "'",
                  " ", "2>&1", " ", "|", "|", " ", "echo", " ", "\"",
                  "Container not found", "\"">>
      [] l = "healthCheck" ->
           W(<<"curl", "-sf">>) \o <<" ", "http://localhost:">> \o PortText
             \o <<"/health", " ", "2>&1", " ", "|", "|", " ", "echo", " ", "\"",
                  "Health check not available", "\"">>
      [] OTHER -> Empty

\* this.sudoPassword.replace(/'/g, "'\\''")
EscapePassword(pw) == ReplaceAll(pw, "'", <<"'", "\\", "'", "'">>)

\* command.replace(/^sudo\s+/, 'sudo -S ')
RECURSIVE DropLeadingWs(_)
DropLeadingWs(s) ==
    IF s # Empty /\ IsWs(Head(s)) THEN DropLeadingWs(Tail(s)) ELSE s

ReplaceLeadingSudo(command) ==
    IF Len(command) >= 2 /\ command[1] = "sudo" /\ IsWs(command[2])
    THEN <<"sudo", " ", "-S", " ">> \o DropLeadingWs(Tail(command))
    ELSE command

\* The text handed to conn.exec by execCommand and by execCommandWithOutput:
\* the command itself, or the command fed with the stored password
ComposeSudo(sp, command) ==
    IF sp.set /\ Truthy(sp.val) /\ Includes(command, <<"sudo">>)
    THEN IF Includes(command, <<"|">>) /\ Includes(command, <<"sudo">>)
         THEN <<"bash", " ", "-c", " ", "\"", "echo", " ", "'">>
                \o EscapePassword(sp.val) \o <<"'", " ", "|", " ">>
                \o ReplaceAll(command, "sudo", <<"sudo", " ", "-S">>) \o <<"\"">>
         ELSE IF StartsWith(Trim(command), <<"sudo", " ">>)
         THEN <<"echo", " ", "'">> \o EscapePassword(sp.val) \o <<"'", " ", "|", " ">>
                \o ReplaceLeadingSudo(command)
         ELSE command
    ELSE command

NullPassword == [set |-> FALSE, val |-> Empty]



----------------------------------------------------------------------------
(* deploy(config): what a remote command may come back with *)

Host == <<"10.0.0.5">>

OkOut(a) == [kind |-> "close", code |-> "0", out |-> a, err |-> Empty]

FailOut(o, e) == [kind |-> "close", code |-> "1", out |-> o, err |-> e]

\* conn.exec reported an error instead of a stream
ExecErr(m) == [kind |-> "execErr", code |-> "undefined", out |-> Empty, err |-> m]

SudoRejectedText ==
    << "[sudo] password", " for clara: ", "Sorry, try again", ".", "\n",
       "sudo: 1 ", "incorrect password", " attempt" >>

RemoteErrorText == <<"remote: something went wrong">>

SudoLabels ==
    { l \in Labels \ SleepLabels :
        Includes(CommandText(l, "cpu", <<"clara">>), <<"sudo">>) }

\* probes whose stderr is discarded on the host (2>/dev/null)
QuietLabels ==
    {"dockerVersion", "nvidiaCheck", "whichCtk", "whichApt", "whichYum", "contextShow"}

\* standard output of a command that exits 0
Answers(l) ==
    CASE l = "dockerVersion" -> { <<"Docker version 24", "\n">> }
      [] l = "osRelease" -> { <<"NAME=", "Ubuntu", "\n">>, <<"NAME=", "Alpine", "\n">> }
      [] l \in {"whoami1", "whoami2"} -> { <<"clara", "\n">> }
      [] l = "nvidiaCheck" -> { <<"NVIDIA-SMI 550", "\n">> }
      [] l = "whichCtk" -> { <<"/usr/bin/nvidia-ctk", "\n">> }
      [] l = "whichApt" -> { <<"/usr/bin/apt-get", "\n">> }
      [] l = "whichYum" -> { <<"/usr/bin/yum", "\n">> }
      [] l = "contextShow" -> { <<"default", "\n">>, <<"desktop-linux", "\n">> }
      [] l = "runtimeCheck" ->
           { <<" Runtimes: ", "nvidia", " runc", "\n">>, <<" Runtimes: runc", "\n">> }
      [] l = "dockerRun" -> { <<"3f2a9c41", "\n">> }
      [] l = "dockerPs" -> { <<"3f2a9c41", "\n">>, Empty }
      [] l = "dockerLogs" ->
           { <<"Error: model not found", "\n">>, Empty, <<"No logs available", "\n">>,
             <<"open /app/models: ", "Permission denied", "\n">> }
      [] l = "dockerInspect" ->
           { <<"exited: ", "\n">>, <<"Container not found", "\n">> }
      [] l = "healthCheck" ->
           { <<"{status: ok}">>, <<"Health check not available", "\n">> }
      [] l \in StreamLabels -> { <<"progress", "\n">> }
      [] OTHER -> { Empty }

\* ways a command exits non-zero
Failures(l) ==
    (IF l \in QuietLabels THEN { FailOut(Empty, Empty) }
     ELSE { FailOut(Empty, RemoteErrorText) })
    \cup (IF l \in SudoLabels THEN { FailOut(Empty, SudoRejectedText) } ELSE {})
    \cup (IF l \in {"dockerVersion", "nvidiaCheck"}
          THEN { FailOut(<<"bash: ">> \o CommandNotFound, Empty) } ELSE {})

\* The session went down while the command was running: its stream closes
\* without an exit code, with whatever output had arrived
AbortOutcomes(l) ==
    { [kind |-> "close", code |-> "undefined", out |-> a, err |-> Empty] :
        a \in Answers(l) \cup {Empty} }

PossibleOutcomes(l, wasSent, cs) ==
    IF ~wasSent THEN { ExecErr(<<"Not connected">>) }
    ELSE IF cs # "open" THEN AbortOutcomes(l)
    ELSE (IF l = "dockerVersion"
          THEN (IF hostDocker THEN { OkOut(a) : a \in Answers(l) } ELSE Failures(l))
          ELSE { OkOut(a) : a \in Answers(l) } \cup Failures(l))
            \cup { ExecErr(<<"(SSH) Channel open failure">>) }

\* resolve(output || errorOutput)
ExecResult(o) == IF Truthy(o.out) THEN o.out ELSE o.err

Rejected_onAnyExit(l, o) ==
    o.kind = "execErr" \/ o.code # "0"

Rejected_onlyExecErr(l, o) ==
    o.kind = "execErr"

\* execCommand never rejects on an exit code; execCommandWithOutput rejects
\* on every code other than 0
Rejected(l, o) ==
    o.kind = "execErr" \/ (l \in StreamLabels /\ o.code # "0")

RejectMessage(o) ==
    IF o.kind = "execErr" THEN o.err
    ELSE <<"Command failed with code ", o.code>>

FailedCommandLog_composed(command, composed, code) ==
    <<"Command failed (code ", code, "): ">> \o composed

\* log.warn(`Command failed (code ${code}): ${command}`)
FailedCommandLog(command, composed, code) ==
    <<"Command failed (code ", code, "): ">> \o command

\* what the stream handlers of execCommandWithOutput let through to the log
StreamFilter(chunk, isStderr) ==
    /\ Truthy(Trim(chunk))
    /\ ~Includes(Trim(chunk), <<"[sudo] password">>)
    /\ ~Includes(Trim(chunk), <<"Sorry, try again">>)
    /\ (isStderr => ~Includes(Trim(chunk), <<"sudo: a password is required">>))

\* no awaited call has come back yet
NoReturn == [code |-> "none", rejected |-> FALSE, value |-> Empty, output |-> Empty]

\* What the caller of execCommand / execCommandWithOutput gets for outcome o
\* of the call l: the promise resolves with text (execCommand) or with
\* nothing (execCommandWithOutput), or rejects with an Error.  output is
\* what the command wrote to its two streams, whether or not the caller
\* gets to see it.
Returned(l, o) ==
    [ code |-> IF o.kind = "execErr" THEN "none" ELSE o.code,
      rejected |-> Rejected(l, o),
      value |-> IF Rejected(l, o) THEN RejectMessage(o)
                ELSE IF l \in StreamLabels THEN Empty
                ELSE ExecResult(o),
      output |-> IF o.kind = "execErr" THEN Empty ELSE o.out \o o.err ]

\* messages logged inside execCommand / execCommandWithOutput
ExecLogs(l, o, command, composed) ==
    IF o.kind = "execErr" THEN {}
    ELSE IF l \in StreamLabels
    THEN (IF StreamFilter(o.out, FALSE) THEN { <<"[Remote] ">> \o Trim(o.out) } ELSE {})
           \cup (IF StreamFilter(o.err, TRUE) THEN { <<"[Remote] ">> \o Trim(o.err) } ELSE {})
    ELSE IF o.code # "0" /\ Truthy(o.err)
         THEN { FailedCommandLog(command, composed, o.code), <<"Error: ">> \o o.err }
         ELSE {}

----------------------------------------------------------------------------
(* deploy(config): the 'ready' handler as a program over its awaited calls *)

CheckDockerResult_alwaysTrue(r) == TRUE

\* checkDocker: result && !result.includes('command not found')
CheckDockerResult(r) == Truthy(r) /\ ~Includes(r, CommandNotFound)

detectDistro(osRelease) ==
    IF Includes(osRelease, <<"Ubuntu">>) THEN <<"Ubuntu">>
    ELSE IF Includes(osRelease, <<"Debian">>) THEN <<"Debian">>
    ELSE IF Includes(osRelease, <<"Fedora">>) THEN <<"Fedora">>
    ELSE IF Includes(osRelease, <<"CentOS">>) THEN <<"CentOS">>
    ELSE IF Includes(osRelease, <<"Red Hat">>) THEN <<"RHEL">>
    ELSE IF Includes(osRelease, <<"Arch">>) THEN <<"Arch Linux">>
    ELSE <<"Unknown Linux">>

PrereqStart_none(hw) == "dockerStop"

\* step 2 of deploy: the first call of the hardware-specific setup
PrereqStart(hw) ==
    CASE hw = "cuda" -> "nvidiaCheck"
      [] hw = "rocm" -> "rocmGroups"
      [] hw = "strix" -> "udevRules"
      [] OTHER -> "dockerStop"

Succ_runBeforePull(l) ==
    CASE l = "osRelease" -> "curlScript"
      [] l = "curlScript" -> "runScript"
      [] l = "runScript" -> "rmScript"
      [] l = "rmScript" -> "whoami1"
      [] l = "usermod1" -> "sysStart"
      [] l = "sysStart" -> "sysEnable"
      [] l = "aptKey" -> "aptRepo"
      [] l = "aptRepo" -> "aptUpdate"
      [] l = "aptUpdate" -> "aptInstall"
      [] l = "aptInstall" -> "ctkConfigure"
      [] l = "yumRepo" -> "yumInstall"
      [] l = "yumInstall" -> "ctkConfigure"
      [] l = "ctkConfigure" -> "daemonReload"
      [] l = "daemonReload" -> "restartDocker"
      [] l = "restartDocker" -> "sleep3"
      [] l = "sleep3" -> "contextShow"
      [] l = "contextUse" -> "whoami2"
      [] l = "rocmGroups" -> "dockerStop"
      [] l = "udevRules" -> "udevReload"
      [] l = "udevReload" -> "udevTrigger"
      [] l = "udevTrigger" -> "strixGroups"
      [] l = "strixGroups" -> "dockerStop"
      [] l = "dockerStop" -> "dockerRm"
      [] l = "dockerRm" -> "dockerRun"
      [] l = "dockerRun" -> "dockerPull"
      [] l = "dockerPull" -> "sleep5"
      [] l = "sleep5" -> "dockerPs"
      [] l = "dockerLogs" -> "dockerInspect"

\* the call that unconditionally follows l in the source
Succ(l) ==
    CASE l = "osRelease" -> "curlScript"
      [] l = "curlScript" -> "runScript"
      [] l = "runScript" -> "rmScript"
      [] l = "rmScript" -> "whoami1"
      [] l = "usermod1" -> "sysStart"
      [] l = "sysStart" -> "sysEnable"
      [] l = "aptKey" -> "aptRepo"
      [] l = "aptRepo" -> "aptUpdate"
      [] l = "aptUpdate" -> "aptInstall"
      [] l = "aptInstall" -> "ctkConfigure"
      [] l = "yumRepo" -> "yumInstall"
      [] l = "yumInstall" -> "ctkConfigure"
      [] l = "ctkConfigure" -> "daemonReload"
      [] l = "daemonReload" -> "restartDocker"
      [] l = "restartDocker" -> "sleep3"
      [] l = "sleep3" -> "contextShow"
      [] l = "contextUse" -> "whoami2"
      [] l = "rocmGroups" -> "dockerStop"
      [] l = "udevRules" -> "udevReload"
      [] l = "udevReload" -> "udevTrigger"
      [] l = "udevTrigger" -> "strixGroups"
      [] l = "strixGroups" -> "dockerStop"
      [] l = "dockerStop" -> "dockerRm"
      [] l = "dockerRm" -> "dockerPull"
      [] l = "dockerPull" -> "dockerRun"
      [] l = "dockerRun" -> "sleep5"
      [] l = "sleep5" -> "dockerPs"
      [] l = "dockerLogs" -> "dockerInspect"

\* log.info lines that directly precede the call l
EntryLogs(l, hw) ==
    CASE l = "dockerVersion" ->
           { <<"SSH connection established for deployment">>,
             <<"Deploying ">> \o ImageName(hw) \o <<"...">> }
      [] l = "osRelease" ->
           { <<"Installing Docker...">>, <<"[Remote] Detecting Linux distribution...">> }
      [] l = "curlScript" -> { <<"[Remote] Downloading Docker installation script...">> }
      [] l = "runScript" ->
           { <<"[Remote] Installing Docker (this may take a few minutes)...">> }
      [] l = "sysStart" -> { <<"[Remote] Starting Docker service...">> }
      [] l = "whichCtk" -> { <<"[Remote] NVIDIA drivers detected">> }
      [] l = "whichApt" -> { <<"[Remote] Installing NVIDIA Container Toolkit...">> }
      [] l = "aptKey" -> { <<"[Remote] Adding NVIDIA GPG key...">> }
      [] l \in {"aptRepo", "yumRepo"} -> { <<"[Remote] Adding NVIDIA repository...">> }
      [] l = "aptUpdate" -> { <<"[Remote] Updating package lists...">> }
      [] l \in {"aptInstall", "yumInstall"} ->
           { <<"[Remote] Installing NVIDIA Container Toolkit...">> }
      [] l = "ctkConfigure" -> { <<"[Remote] Configuring NVIDIA runtime for Docker...">> }
      [] l = "daemonReload" -> { <<"[Remote] Restarting Docker service...">> }
      [] l = "contextUse" ->
           { <<"[Remote] Switching from Docker Desktop to Docker Engine context...">> }
      [] l = "dockerStop" -> { <<"Cleaning up existing containers...">> }
      [] l = "dockerPull" -> { <<"Pulling image ">> \o ImageName(hw) \o <<"...">> }
      [] l = "dockerRun" ->
           { <<"Starting container ">> \o ContainerName(hw) \o <<"...">> }
      [] l = "sleep5" -> { <<"Waiting for container to start...">> }
      [] l = "healthCheck" ->
           { <<"[Remote] Container started successfully!">>,
             <<"[Remote] Verifying service health...">> }
      [] OTHER -> {}

\* String.prototype.substring(from, to), an atom counted as one character
Substring(s, from, to) ==
    SubSeq(s, from + 1, IF to < Len(s) THEN to ELSE Len(s))

\* One turn of the handler: where it goes next, what it logs on the way, and
\* its locals afterwards.  next is a call, "finish" or "throw".
Turn(next, logs) ==
    [ next |-> next, logs |-> logs, err |-> Empty, hasDocker |-> hasDocker,
      user |-> user, hasApt |-> hasApt, logsOut |-> logsOut, isRunning |-> isRunning ]

Goto(next, logs) == Turn(next, logs \cup EntryLogs(next, hardwareType))

\* an Error thrown in deploy's try block, through the catch of the helper
\* the call l belongs to
Throw(l, msg) ==
    IF l \in InstallDockerLabels
    THEN [ Turn("throw", { <<"[Remote] Docker installation failed: ">> \o msg })
             EXCEPT !.err = <<"Failed to install Docker: ">> \o msg ]
    ELSE IF l \in SetupCudaLabels
    THEN [ Turn("throw", { <<"[Remote] CUDA setup failed: ">> \o msg })
             EXCEPT !.err = msg ]
    ELSE [ Turn("throw", {}) EXCEPT !.err = msg ]

\* the awaited call l rejected with msg
OnReject(l, msg) ==
    IF l = "dockerVersion"
    THEN [ Goto("osRelease", {}) EXCEPT !.hasDocker = FALSE ]
    ELSE Throw(l, msg)

NonBlank(r) == Truthy(r) /\ Truthy(Trim(r))

HealthTurn_fatal(r) ==
    IF Includes(r, <<"Health check not available">>)
    THEN [ Turn("throw", {}) EXCEPT !.err = <<"Health check not available">> ]
    ELSE Turn("finish", { <<"[Remote] Service is healthy and responding">> })

\* step 8 of deploy: the health probe only chooses the line that is logged
HealthTurn(r) ==
    Turn("finish",
         IF Includes(r, <<"Health check not available">>)
         THEN { <<"[Remote] Service health endpoint not available, but container is running">> }
         ELSE { <<"[Remote] Service is healthy and responding">> })

\* the awaited call l resolved with r
Continue(l, r) ==
    CASE l = "dockerVersion" ->
           [ Goto(IF CheckDockerResult(r) THEN PrereqStart(hardwareType)
                  ELSE "osRelease", {})
               EXCEPT !.hasDocker = CheckDockerResult(r) ]
      [] l = "osRelease" ->
           Goto(Succ(l), { <<"[Remote] Detected distribution: ">> \o detectDistro(r) })
      [] l = "whoami1" ->
           LET u == IF Truthy(Trim(r)) THEN Trim(r) ELSE <<"ubuntu">>
           IN  [ Goto("usermod1",
                      { <<"[Remote] Adding user ">> \o u \o <<" to docker group...">> })
                   EXCEPT !.user = u ]
      [] l = "sysEnable" ->
           Goto(PrereqStart(hardwareType),
                { <<"[Remote] Docker installed successfully">>,
                  <<"[Remote] Note: User needs to log out and back in for docker group to take effect">> })
      [] l = "nvidiaCheck" ->
           IF ~Truthy(r) \/ Includes(r, CommandNotFound)
           THEN Throw(l, <<"NVIDIA drivers not found. Please install NVIDIA drivers first.">>)
           ELSE Goto("whichCtk", {})
      [] l = "whichCtk" ->
           IF ~NonBlank(r) THEN Goto("whichApt", {})
           ELSE Goto("ctkConfigure",
                     { <<"[Remote] NVIDIA Container Toolkit already installed">> })
      [] l = "whichApt" -> [ Goto("whichYum", {}) EXCEPT !.hasApt = NonBlank(r) ]
      [] l = "whichYum" ->
           IF hasApt THEN Goto("aptKey", {})
           ELSE IF NonBlank(r) THEN Goto("yumRepo", {})
           ELSE Throw(l, <<"Unsupported package manager. Only apt and yum are supported.">>)
      [] l = "contextShow" ->
           IF Truthy(r) /\ Includes(r, <<"desktop-linux">>)
           THEN Goto("contextUse", {})
           ELSE Goto("runtimeCheck", {})
      [] l = "whoami2" -> [ Goto("usermod2", {}) EXCEPT !.user = Trim(r) ]
      [] l = "usermod2" ->
           Goto("runtimeCheck",
                { <<"[Remote] Note: User may need to log out and back in for docker group to take effect">> })
      [] l = "runtimeCheck" ->
           Goto("dockerStop",
                IF Truthy(r) /\ Includes(r, <<"nvidia">>)
                THEN { <<"[Remote] NVIDIA Container Toolkit configured successfully">> }
                ELSE { <<"[Remote] NVIDIA runtime may not be properly configured. Container may need manual intervention.">> })
      [] l = "dockerPs" ->
           [ Goto(IF ~NonBlank(r) THEN "dockerLogs" ELSE "healthCheck", {})
               EXCEPT !.isRunning = r ]
      [] l = "dockerLogs" -> [ Goto("dockerInspect", {}) EXCEPT !.logsOut = r ]
      [] l = "dockerInspect" ->
           Throw(l, <<"Container failed to start.\n\nStatus: ">> \o r
                      \o <<"\n\nLogs:\n">> \o Substring(logsOut, 0, LogExcerptLen))
      [] l = "healthCheck" -> HealthTurn(r)
      [] OTHER -> Goto(Succ(l), {})



----------------------------------------------------------------------------
(* deploy(config): the promise, the watchdog, the session events *)

NoResultYet ==
    [ success |-> FALSE, url |-> Empty, containerName |-> Empty, error |-> Empty ]

\* resolve({ success: true, url: `http://${config.host}:5890`, containerName })
SuccessResult_fixedName(host, containerName) ==
    [ success |-> TRUE, url |-> <<"http://">> \o host \o <<":">> \o PortText,
      containerName |-> <<"claracore">>, error |-> Empty ]

SuccessResult(host, containerName) ==
    [ success |-> TRUE, url |-> <<"http://">> \o host \o <<":">> \o PortText,
      containerName |-> containerName, error |-> Empty ]

FailureResult(msg) ==
    [ success |-> FALSE, url |-> Empty, containerName |-> Empty, error |-> msg ]

\* "Provide better error messages" in deploy's catch block
CatchMessage(msg) ==
    IF Includes(msg, <<"incorrect password">>)
    THEN <<"Incorrect sudo password. Please verify your SSH password and try again.">>
    ELSE IF Includes(msg, <<"Permission denied">>)
    THEN <<"SSH authentication failed. Please check your credentials.">>
    ELSE msg

\* errors the ssh2 client may emit
ConnectErrors ==
    { [ message |-> <<"All configured authentication methods failed">>,
        level |-> "client-authentication", code |-> "none" ],
      [ message |-> <<"connect ECONNREFUSED">>, level |-> "client-socket",
        code |-> "ECONNREFUSED" ],
      [ message |-> <<"connect ETIMEDOUT">>, level |-> "client-socket",
        code |-> "ETIMEDOUT" ],
      [ message |-> <<"Timed out while waiting for handshake">>,
        level |-> "client-timeout", code |-> "none" ] }

SessionErrors ==
    { [ message |-> <<"read ECONNRESET">>, level |-> "client-socket",
        code |-> "ECONNRESET" ] }

ErrorEventMessage_generic(e) == <<"Connection failed">>

\* the message deploy's 'error' handler resolves with
ErrorEventMessage(e) ==
    IF e.level = "client-authentication"
    THEN <<"SSH authentication failed. Please check your username and password.">>
    ELSE IF e.code = "ECONNREFUSED"
    THEN <<"Connection refused. Please check the host and port.">>
    ELSE IF e.code \in {"ETIMEDOUT", "ENOTFOUND"}
    THEN <<"Connection timeout. Please check the host address and your network connection.">>
    ELSE e.message

EnterStep(ss, st) == IF ss[Len(ss)] = st THEN ss ELSE Append(ss, st)

\* The state right after deploy(config) has run its synchronous part: the
\* password is stored, the watchdog is armed, conn.connect() is under way
DeployInit ==
    /\ hardwareType \in HardwareTypes
    /\ password \in Passwords
    /\ hostArch \in HostArchs
    /\ hostDocker \in BOOLEAN
    /\ connState = "connecting"
    /\ endCount = 0
    /\ timer = "armed"
    /\ isResolved = FALSE
    /\ settled = "pending"
    /\ result = NoResultYet
    /\ sudoPassword = [set |-> TRUE, val |-> password]
    /\ pc = "idle"
    /\ sent = FALSE
    /\ lastCmd = Empty
    /\ lastLogs = {}
    /\ steps = <<"connecting">>
    /\ hasDocker = FALSE
    /\ user = Empty
    /\ hasApt = FALSE
    /\ logsOut = Empty
    /\ isRunning = Empty
    /\ allOk = TRUE
    /\ lastReturn = NoReturn
    /\ inFlight = 0

ConfigFrame == UNCHANGED <<hardwareType, password, hostArch, hostDocker>>

PromiseFrame ==
    UNCHANGED <<connState, endCount, timer, isResolved, settled, result, sudoPassword>>

Sends_whateverTheSession(l, cs) == l \in Labels \ SleepLabels

\* conn.exec(command, ...) hands the command to the host on an open session
\* only; on a session that was ended or is down it fails with 'Not connected'
Sends(l, cs) == l \in Labels \ SleepLabels /\ cs = "open"

\* the handler hands the call l to execCommand / execCommandWithOutput / sleep
Issue(l, u, logs) ==
    /\ pc' = l
    /\ sent' = Sends(l, connState)
    /\ lastCmd' = IF l \in SleepLabels THEN Empty
                  ELSE ComposeSudo(sudoPassword, CommandText(l, hardwareType, u))
    /\ lastLogs' = logs
    /\ steps' = EnterStep(steps, StepOf(l))
    /\ PromiseFrame

\* the end of the try block: lines 357-370
SuccessPath(logs) ==
    /\ timer' = ClearTimeout(timer)
    /\ endCount' = endCount + 1
    /\ connState' = "closed"
    /\ sudoPassword' = NullPassword
    /\ isResolved' = TRUE
    /\ IF ~isResolved
       THEN /\ settled' = "resolved"
            /\ result' = SuccessResult(Host, ContainerName(hardwareType))
            /\ steps' = Append(steps, "complete")
       ELSE UNCHANGED <<settled, result, steps>>
    /\ pc' = "done"
    /\ sent' = FALSE
    /\ lastCmd' = Empty
    /\ lastLogs' = logs

\* the catch block: lines 372-396
FailurePath(msg, logs) ==
    /\ timer' = ClearTimeout(timer)
    /\ endCount' = endCount + 1
    /\ connState' = "closed"
    /\ sudoPassword' = NullPassword
    /\ isResolved' = TRUE
    /\ IF ~isResolved
       THEN /\ settled' = "resolved"
            /\ result' = FailureResult(CatchMessage(msg))
       ELSE UNCHANGED <<settled, result>>
    /\ UNCHANGED steps
    /\ pc' = "done"
    /\ sent' = FALSE
    /\ lastCmd' = Empty
    /\ lastLogs' = logs \cup { <<"Deployment error: ">> \o msg }

StreamClosed_resolvesEarly(n, wasSent) == n

\* stream.on('close') is what settles the promise of execCommand and of
\* execCommandWithOutput: the stream the handler awaited is gone by the
\* time the handler runs again
StreamClosed(n, wasSent) == IF wasSent THEN n - 1 ELSE n

CommandOk(l, o) ==
    /\ o.kind = "close"
    /\ o.code # "undefined"
    /\ (o.code = "0" \/ l = "dockerVersion")

\* the handler runs from the completion of the awaited call to its next await
Resume(t, logs, ok) ==
    /\ hasDocker' = t.hasDocker
    /\ user' = t.user
    /\ hasApt' = t.hasApt
    /\ logsOut' = t.logsOut
    /\ isRunning' = t.isRunning
    /\ allOk' = (allOk /\ ok)
    /\ inFlight' = StreamClosed(inFlight, sent)
                    + (IF Sends(t.next, connState) THEN 1 ELSE 0)
    /\ ConfigFrame
    /\ IF t.next = "finish" THEN SuccessPath(logs \cup t.logs)
       ELSE IF t.next = "throw" THEN FailurePath(t.err, logs \cup t.logs)
       ELSE Issue(t.next, t.user, logs \cup t.logs)

\* conn.on('ready'): the handler starts and awaits checkDocker's command
Ready ==
    /\ connState = "connecting"
    /\ pc = "idle"
    /\ connState' = "open"
    /\ pc' = "dockerVersion"
    /\ sent' = TRUE
    /\ inFlight' = inFlight + 1
    /\ lastCmd' = ComposeSudo(sudoPassword, CommandText("dockerVersion", hardwareType, user))
    /\ lastLogs' = EntryLogs("dockerVersion", hardwareType)
    /\ steps' = EnterStep(steps, StepOf("dockerVersion"))
    /\ UNCHANGED <<endCount, timer, isResolved, settled, result, sudoPassword,
                   hasDocker, user, hasApt, logsOut, isRunning, allOk, lastReturn>>
    /\ ConfigFrame
    /\ UNCHANGED outsideDeploy

\* the stream of the awaited command closes, or conn.exec reports an error
CommandReturns ==
    /\ pc \in Labels \ SleepLabels
    /\ \E o \in PossibleOutcomes(pc, sent, connState) :
         /\ Resume(IF Rejected(pc, o) THEN OnReject(pc, RejectMessage(o))
                   ELSE Continue(pc, ExecResult(o)),
                   ExecLogs(pc, o, CommandText(pc, hardwareType, user), lastCmd),
                   CommandOk(pc, o))
         /\ lastReturn' = Returned(pc, o)
    /\ UNCHANGED outsideDeploy

\* the timer of this.sleep(ms) fires
SleepElapses ==
    /\ pc \in SleepLabels
    /\ Resume(Goto(Succ(pc), {}), {}, TRUE)
    /\ lastReturn' = NoReturn
    /\ UNCHANGED outsideDeploy

Timeout_logsOnly ==
    /\ timer = "armed"
    /\ connState # "connecting"
    /\ timer' = "fired"
    /\ lastLogs' = { <<"Deployment timeout after 5 minutes">> }
    /\ UNCHANGED <<isResolved, endCount, connState, settled, result, sudoPassword,
                   pc, sent, lastCmd, steps, hasDocker, user, hasApt, logsOut,
                   isRunning, allOk, lastReturn, inFlight>>
    /\ ConfigFrame
    /\ UNCHANGED outsideDeploy

\* The 5-minute watchdog fires (lines 284-290).  readyTimeout: 30000 makes
\* the client give up connecting long before, so the session is past
\* "connecting" when it does.
Timeout ==
    /\ timer = "armed"
    /\ connState # "connecting"
    /\ timer' = "fired"
    /\ IF ~isResolved
       THEN /\ isResolved' = TRUE
            /\ endCount' = endCount + 1
            /\ connState' = "closed"
            /\ settled' = "rejected"
            /\ result' = FailureResult(<<"Deployment timeout after 5 minutes">>)
       ELSE UNCHANGED <<isResolved, endCount, connState, settled, result>>
    /\ lastLogs' = {}
    /\ UNCHANGED <<sudoPassword, pc, sent, lastCmd, steps, hasDocker, user, hasApt,
                   logsOut, isRunning, allOk, lastReturn, inFlight>>
    /\ ConfigFrame
    /\ UNCHANGED outsideDeploy

\* conn.on('error') (lines 399-423): the client reports a failure of the
\* connection attempt or of the established session, which is then down
SshError ==
    /\ connState \in {"connecting", "open"}
    /\ \E e \in (IF connState = "connecting" THEN ConnectErrors ELSE SessionErrors) :
         /\ timer' = ClearTimeout(timer)
         /\ lastLogs' = { <<"SSH connection error during deployment: ">> \o e.message }
         /\ sudoPassword' = NullPassword
         /\ isResolved' = TRUE
         /\ IF ~isResolved
            THEN /\ settled' = "resolved"
                 /\ result' = FailureResult(ErrorEventMessage(e))
            ELSE UNCHANGED <<settled, result>>
    /\ connState' = "closed"
    /\ UNCHANGED <<endCount, pc, sent, lastCmd, steps, hasDocker, user, hasApt,
                   logsOut, isRunning, allOk, lastReturn, inFlight>>
    /\ ConfigFrame
    /\ UNCHANGED outsideDeploy

Next ==
    \/ Ready
    \/ CommandReturns
    \/ SleepElapses
    \/ Timeout
    \/ SshError

----------------------------------------------------------------------------
(* testSetup(config): the promise, the watchdog, the session events *)

TestTimeoutError == <<"Connection timeout after 30 seconds">>

\* the state right after testSetup(config) has run its synchronous part
TestInit ==
    /\ testConn = "connecting"
    /\ testEnds = 0
    /\ testTimer = "armed"
    /\ testIsResolved = FALSE
    /\ testSettled = "pending"
    /\ testResult = NoTestResult
    /\ testLog = {}

\* no testSetup is running
TestIdle ==
    /\ testConn = "none"
    /\ testEnds = 0
    /\ testTimer = "cleared"
    /\ testIsResolved = FALSE
    /\ testSettled = "pending"
    /\ testResult = NoTestResult
    /\ testLog = {}

\* conn.on('ready') (lines 115-120): detectHardware is entered and its first
\* probe is awaited
TestReady ==
    /\ testConn = "connecting"
    /\ dpc = "idle"
    /\ testConn' = "open"
    /\ dpc' = "arch"
    /\ testLog' = { <<"SSH connection established">> }
    /\ UNCHANGED <<testEnds, testTimer, testIsResolved, testSettled, testResult>>
    /\ UNCHANGED <<probeOut, details, detectResult>>
    /\ UNCHANGED outsideTest

\* the 30-second watchdog fires (lines 107-113)
TestTimeout ==
    /\ testTimer = "armed"
    /\ testTimer' = "fired"
    /\ IF ~testIsResolved
       THEN /\ testIsResolved' = TRUE
            /\ testEnds' = testEnds + 1
            /\ testConn' = "closed"
            /\ testSettled' = "rejected"
            /\ testResult' = [success |-> FALSE, error |-> TestTimeoutError]
       ELSE UNCHANGED <<testIsResolved, testEnds, testConn, testSettled, testResult>>
    /\ testLog' = {}
    /\ UNCHANGED detectVars
    /\ UNCHANGED outsideTest

\* conn.on('error') (lines 146-157): the connection attempt or the
\* established session failed; the session is down afterwards
TestSshError ==
    /\ testConn \in {"connecting", "open"}
    /\ \E e \in (IF testConn = "connecting" THEN ConnectErrors ELSE SessionErrors) :
         /\ testTimer' = ClearTimeout(testTimer)
         /\ testLog' = { <<"SSH connection error: ">> \o e.message }
         /\ testIsResolved' = TRUE
         /\ IF ~testIsResolved
            THEN /\ testSettled' = "resolved"
                 /\ testResult' = [success |-> FALSE, error |-> e.message]
            ELSE UNCHANGED <<testSettled, testResult>>
    /\ testConn' = "closed"
    /\ UNCHANGED testEnds
    /\ UNCHANGED detectVars
    /\ UNCHANGED outsideTest

TestNext ==
    \/ TestReady
    \/ TestTimeout
    \/ TestSshError
    \/ DetectNext

----------------------------------------------------------------------------
(* setupRemoteServerIPC: the handlers of the three channels *)

Channels ==
    { "remote-server:test-connection", "remote-server:deploy",
      "remote-server:stop-service" }

LocalServices == {"comfyui", "n8n", "python-backend"}

NoStopResult == [stopped |-> {}, errors |-> {}]

\* how `await stopLocalServicesCallback()` may come back: with a stopResult,
\* with a value that has no `stopped` list, or with a rejection
StopOutcomes ==
    { [kind |-> "resolved", value |-> [stopped |-> st, errors |-> er], msg |-> Empty] :
        st \in SUBSET LocalServices, er \in SUBSET LocalServices }
    \cup { [kind |-> "malformed", value |-> NoStopResult,
             msg |-> <<"Cannot read properties of undefined (reading 'stopped')">>],
           [kind |-> "rejected", value |-> NoStopResult,
             msg |-> <<"Failed to stop local services">>] }

\* how the awaited call of the remote server service may come back: it
\* resolves with a result object or rejects with an Error
ServiceOutcomes(h) ==
    CASE h = "remote-server:test-connection" ->
           { [rejected |-> FALSE, success |-> TRUE, error |-> Empty],
             [rejected |-> FALSE, success |-> FALSE,
              error |-> <<"All configured authentication methods failed">>],
             [rejected |-> TRUE, success |-> FALSE,
              error |-> <<"Connection timeout after 30 seconds">>] }
      [] h = "remote-server:deploy" ->
           { [rejected |-> FALSE, success |-> TRUE, error |-> Empty],
             [rejected |-> FALSE, success |-> FALSE,
              error |-> <<"Connection refused. Please check the host and port.">>],
             [rejected |-> TRUE, success |-> FALSE,
              error |-> <<"Deployment timeout after 5 minutes">>] }
      [] h = "remote-server:stop-service" ->
           { [rejected |-> FALSE, success |-> TRUE, error |-> Empty],
             [rejected |-> FALSE, success |-> FALSE, error |-> <<"No such container">>],
             [rejected |-> TRUE, success |-> FALSE, error |-> <<"Not connected">>] }

NoIpcReturn == [how |-> "none", success |-> FALSE, error |-> Empty]

IpcCatch_rethrow(m) == [how |-> "threw", success |-> FALSE, error |-> m]

\* the catch block of a handler: return { success: false, error: error.message }
IpcCatch(m) == [how |-> "returned", success |-> FALSE, error |-> m]

\* log.error in the catch block of the handler h
IpcCatchLog(h, m) ==
    CASE h = "remote-server:test-connection" ->
           { <<"[RemoteServerIPC] Connection test error: ">> \o m }
      [] h = "remote-server:deploy" -> { <<"[RemoteServerIPC] Deployment error: ">> \o m }
      [] h = "remote-server:stop-service" ->
           { <<"[RemoteServerIPC] Stop service error: ">> \o m }

\* a handler has just been invoked by ipcMain
IpcInit ==
    /\ ipcHandler \in Channels
    /\ ipcHasStop \in BOOLEAN
    /\ ipcPc = "invoked"
    /\ ipcStopResult = NoStopResult
    /\ ipcRaised = Empty
    /\ ipcReturn = NoIpcReturn
    /\ ipcLog = {}
    /\ ipcTrace = <<>>

\* no handler is running
IpcIdle ==
    /\ ipcHandler = "none"
    /\ ipcHasStop = FALSE
    /\ ipcPc = "idle"
    /\ ipcStopResult = NoStopResult
    /\ ipcRaised = Empty
    /\ ipcReturn = NoIpcReturn
    /\ ipcLog = {}
    /\ ipcTrace = <<>>

\* the handler runs up to its first await: the stop callback in the deploy
\* handler when one was given (lines 36-39), the service call otherwise
IpcInvoke ==
    /\ ipcPc = "invoked"
    /\ IF ipcHandler = "remote-server:deploy" /\ ipcHasStop
       THEN /\ ipcPc' = "stopping"
            /\ ipcTrace' = Append(ipcTrace, "stop")
            /\ ipcLog' = { <<"[RemoteServerIPC] Starting deployment to: ">> \o Host,
                           <<"[RemoteServerIPC] Stopping all local services before remote deployment...">> }
       ELSE /\ ipcPc' = "service"
            /\ ipcTrace' = Append(ipcTrace, "service")
            /\ ipcLog' =
                 CASE ipcHandler = "remote-server:test-connection" ->
                        { <<"[RemoteServerIPC] Testing connection to: ">> \o Host }
                   [] ipcHandler = "remote-server:deploy" ->
                        { <<"[RemoteServerIPC] Starting deployment to: ">> \o Host }
                   [] ipcHandler = "remote-server:stop-service" ->
                        { <<"[RemoteServerIPC] Stopping service: ">> \o <<"claracore">> }
    /\ UNCHANGED <<ipcHandler, ipcHasStop, ipcStopResult, ipcRaised, ipcReturn>>
    /\ UNCHANGED outsideIpc

AfterStop_errorsAbort(o) ==
    IF o.kind = "resolved" /\ o.value.errors = {} THEN "service" ELSE "done"

\* Where the deploy handler is after the stop callback came back with o: at
\* the call of the service, unless the await or the reading of
\* stopResult.stopped threw
AfterStop(o) == IF o.kind = "resolved" THEN "service" ELSE "done"

\* `await stopLocalServicesCallback()` comes back (lines 39-50)
IpcStopReturns ==
    /\ ipcPc = "stopping"
    /\ \E o \in StopOutcomes :
         IF AfterStop(o) = "service"
         THEN /\ ipcStopResult' = o.value
              /\ ipcTrace' = ipcTrace \o <<"stopped", "service">>
              /\ ipcLog' = (IF o.value.stopped # {} THEN { <<"[RemoteServerIPC] Stopped">> } ELSE {})
                     \cup (IF o.value.errors # {}
                           THEN { <<"[RemoteServerIPC] Some services had errors during stop">> }
                           ELSE {})
              /\ ipcPc' = "service"
              /\ UNCHANGED <<ipcRaised, ipcReturn>>
         ELSE /\ ipcStopResult' = o.value
              /\ ipcTrace' = Append(ipcTrace, IF o.kind = "rejected" THEN "stop-threw"
                                              ELSE "stopped")
              /\ ipcRaised' = o.msg
              /\ ipcReturn' = IpcCatch(o.msg)
              /\ ipcLog' = IpcCatchLog(ipcHandler, o.msg)
              /\ ipcPc' = "done"
    /\ UNCHANGED <<ipcHandler, ipcHasStop>>
    /\ UNCHANGED outsideIpc

\* the awaited service call comes back (lines 19-27, 50-63, 71-79)
IpcServiceReturns ==
    /\ ipcPc = "service"
    /\ \E o \in ServiceOutcomes(ipcHandler) :
         IF o.rejected
         THEN /\ ipcRaised' = o.error
              /\ ipcReturn' = IpcCatch(o.error)
              /\ ipcLog' = IpcCatchLog(ipcHandler, o.error)
         ELSE /\ ipcReturn' = [how |-> "returned", success |-> o.success, error |-> o.error]
              /\ ipcLog' = IF ipcHandler = "remote-server:deploy" /\ o.success
                           THEN { <<"[RemoteServerIPC] Successfully deployed to remote server">> }
                           ELSE {}
              /\ UNCHANGED ipcRaised
    /\ ipcPc' = "done"
    /\ ipcTrace' = Append(ipcTrace, "returned")
    /\ UNCHANGED <<ipcHandler, ipcHasStop, ipcStopResult>>
    /\ UNCHANGED outsideIpc

IpcNext ==
    \/ IpcInvoke
    \/ IpcStopReturns
    \/ IpcServiceReturns

----------------------------------------------------------------------------
(* RemoteServerSetup.tsx: startDeployment and its log listener *)

MaxDeployments == 3

\* STEP_ORDER of the component
UI_STEP_ORDER ==
    << "connecting", "checking-docker", "pulling-images", "deploying", "verifying",
       "complete" >>

\* the step a log event may carry: one of the component's, one it does not
\* list, or none
LogSteps ==
    { UI_STEP_ORDER[i] : i \in DOMAIN UI_STEP_ORDER }
        \cup { "installing-prerequisites", "none" }

\* STEP_ORDER.indexOf(step), counted from 0; -1 becomes 0 here as both mark
\* nothing complete
StepIndex(step) ==
    IF \E i \in DOMAIN UI_STEP_ORDER : UI_STEP_ORDER[i] = step
    THEN (CHOOSE i \in DOMAIN UI_STEP_ORDER : UI_STEP_ORDER[i] = step) - 1
    ELSE 0

\* how `await window.remoteServer.deploy(...)` may come back
UiDeployOutcomes == {"success", "failure", "threw"}

\* unsubscribe(): the callback registered by this call is removed
Unsubscribe(n) == n - 1

\* the component is mounted and no deployment was started yet
UiInit ==
    /\ uiPc = "idle"
    /\ uiIsDeploying = FALSE
    /\ uiListeners = 0
    /\ uiRuns = 0
    /\ uiHasStore \in BOOLEAN
    /\ uiStep = "connecting"
    /\ uiCompleted = {}
    /\ uiLogsAdded = 0
    /\ uiOutcome = "none"

\* the component is not in use
UiIdle ==
    /\ uiPc = "idle"
    /\ uiIsDeploying = FALSE
    /\ uiListeners = 0
    /\ uiRuns = MaxDeployments
    /\ uiHasStore = FALSE
    /\ uiStep = "connecting"
    /\ uiCompleted = {}
    /\ uiLogsAdded = 0
    /\ uiOutcome = "none"

\* the finally block, after the try block ran through (unsubscribed = TRUE)
\* or after the catch block
UiFinish(how, unsubscribed) ==
    /\ uiPc' = "idle"
    /\ uiIsDeploying' = FALSE
    /\ uiOutcome' = how
    /\ uiListeners' = IF unsubscribed THEN Unsubscribe(uiListeners) ELSE uiListeners
    /\ uiStep' = IF how = "success" THEN "complete" ELSE "error"
    /\ UNCHANGED <<uiRuns, uiHasStore>>

\* The Deploy button is clicked (it is disabled while isDeploying): the state
\* is reset, the log callback is registered and deploy is awaited
UiStart ==
    /\ uiPc = "idle"
    /\ ~uiIsDeploying
    /\ uiRuns < MaxDeployments
    /\ uiRuns' = uiRuns + 1
    /\ uiIsDeploying' = TRUE
    /\ uiListeners' = uiListeners + 1
    /\ uiStep' = "connecting"
    /\ uiCompleted' = {}
    /\ uiLogsAdded' = 0
    /\ uiPc' = "deploy"
    /\ UNCHANGED <<uiHasStore, uiOutcome>>
    /\ UNCHANGED outsideUi

\* a log event of the running deployment reaches every registered callback
UiLogEvent ==
    /\ uiPc = "deploy"
    /\ uiListeners > 0
    /\ \E step \in LogSteps :
         /\ uiLogsAdded' = uiListeners
         /\ IF step # "none"
            THEN /\ uiStep' = step
                 /\ uiCompleted' =
                      uiCompleted \cup { UI_STEP_ORDER[i] : i \in 1..StepIndex(step) }
            ELSE UNCHANGED <<uiStep, uiCompleted>>
    /\ UNCHANGED <<uiPc, uiIsDeploying, uiListeners, uiRuns, uiHasStore, uiOutcome>>
    /\ UNCHANGED outsideUi

\* `await window.remoteServer.deploy(...)` comes back
UiDeployReturns ==
    /\ uiPc = "deploy"
    /\ \E o \in UiDeployOutcomes :
         CASE o = "success" ->
                /\ uiCompleted' = uiCompleted \cup {"verifying"}
                /\ uiLogsAdded' = 2
                /\ IF uiHasStore
                   THEN /\ uiPc' = "storeConfig"
                        /\ uiStep' = "complete"
                        /\ UNCHANGED <<uiIsDeploying, uiListeners, uiRuns, uiHasStore,
                                       uiOutcome>>
                   ELSE UiFinish("success", TRUE)
           [] o = "failure" ->
                /\ uiLogsAdded' = 1
                /\ UNCHANGED uiCompleted
                /\ UiFinish("failure", TRUE)
           [] o = "threw" ->
                /\ uiLogsAdded' = 1
                /\ UNCHANGED uiCompleted
                /\ UiFinish("threw", FALSE)
    /\ UNCHANGED outsideUi

\* one of the two `await electron.store.set(...)` of the success path comes
\* back: it resolves or rejects
UiStoreReturns ==
    /\ uiPc \in {"storeConfig", "storeMode"}
    /\ \E ok \in BOOLEAN :
         IF ~ok
         THEN /\ uiLogsAdded' = 1
              /\ UiFinish("threw", FALSE)
         ELSE IF uiPc = "storeConfig"
         THEN /\ uiPc' = "storeMode"
              /\ UNCHANGED <<uiIsDeploying, uiListeners, uiRuns, uiHasStore, uiStep,
                             uiLogsAdded, uiOutcome>>
         ELSE /\ uiLogsAdded' = 0
              /\ UiFinish("success", TRUE)
    /\ UNCHANGED uiCompleted
    /\ UNCHANGED outsideUi

UiNext ==
    \/ UiStart
    \/ UiLogEvent
    \/ UiDeployReturns
    \/ UiStoreReturns

----------------------------------------------------------------------------
(* ClaraCoreService: start(), stop(), restart() and the managed process *)

MaxCalls == 3

MaxRestartAttempts == 3

\* the count of auto-restarts scheduled stops here
MaxScheduled == 4

CallIds == 1..MaxCalls

\* every start() spawns at most one process
Pids == 1..MaxCalls

NoCall == [op |-> "none", pc |-> "none", pid |-> 0]

PortFree == [kind |-> "free", pid |-> 0]

\* port 8091 is held by the process the service spawned as p
HeldBy(p) == [kind |-> "child", pid |-> p]

\* port 8091 is held by a process the service did not spawn: another
\* ClaraCore, or some other program
ForeignHolders == { [kind |-> "claracore", pid |-> 0], [kind |-> "other", pid |-> 0] }

\* isPortInUse(8091): binding the port fails with EADDRINUSE
IsPortInUse == ccPort.kind # "free"

\* isClaraCoreRunningOnPort(): any HTTP response counts as ClaraCore; no
\* response within the timeout, or nobody listening, does not
ClaraAnswers == IF IsPortInUse THEN BOOLEAN ELSE {FALSE}

\* checkHealth(): GET /health answers 200 within 3 seconds
HealthAnswers == IF ccPort.kind \in {"child", "claracore"} THEN BOOLEAN ELSE {FALSE}

\* killExistingClaraCore(): true when the process on the port was shut down
\* or killed, false when it could not be (or nothing was found)
KillAnswers == IF IsPortInUse THEN BOOLEAN ELSE {FALSE}

Exited == {"exit0", "exit1", "exitNull"}

\* How a running process may end: exit code 0, a crash with code 1 and
\* something on stderr (a bind error when another process holds the port),
\* or a signal (code null)
ExitKinds(p) ==
    { [status |-> "exit0", stderr |-> "none"],
      [status |-> "exit1", stderr |-> "other"],
      [status |-> "exitNull", stderr |-> "none"] }
    \cup (IF IsPortInUse /\ ccPort # HeldBy(p)
          THEN { [status |-> "exit1", stderr |-> "bind"] } ELSE {})

\* the constructor of ClaraCoreService has run, on either platform, with
\* port 8091 free or taken by a foreign process
CcInit ==
    /\ ccWin \in BOOLEAN
    /\ ccIsRunning = FALSE
    /\ ccIsStarting = FALSE
    /\ ccStopped = FALSE
    /\ ccAttempts = 0
    /\ ccTimers = 0
    /\ ccTimerRef = FALSE
    /\ ccProcess = 0
    /\ ccLastError = "none"
    /\ ccProcs = [p \in Pids |-> "none"]
    /\ ccPort \in {PortFree} \cup ForeignHolders
    /\ ccCalls = [c \in CallIds |-> NoCall]
    /\ ccCount = 0
    /\ ccScheduled = 0

\* the service is not in use
CcIdle ==
    /\ ccWin = FALSE
    /\ ccIsRunning = FALSE
    /\ ccIsStarting = FALSE
    /\ ccStopped = FALSE
    /\ ccAttempts = 0
    /\ ccTimers = 0
    /\ ccTimerRef = FALSE
    /\ ccProcess = 0
    /\ ccLastError = "none"
    /\ ccProcs = [p \in Pids |-> "none"]
    /\ ccPort = PortFree
    /\ ccCalls = [c \in CallIds |-> NoCall]
    /\ ccCount = MaxCalls
    /\ ccScheduled = 0

At(id, pc2) == [ccCalls EXCEPT ![id].pc = pc2]

\* start() up to its first await (lines 1065-1080), run for the call id
EnterStart(id, op) ==
    IF ccIsRunning \/ ccIsStarting
    THEN /\ ccCalls' = [ccCalls EXCEPT ![id] = [op |-> op, pc |-> "skipped", pid |-> 0]]
         /\ UNCHANGED <<ccIsStarting, ccStopped>>
    ELSE /\ ccIsStarting' = TRUE
         /\ ccStopped' = FALSE
         /\ ccCalls' = [ccCalls EXCEPT ![id] = [op |-> op, pc |-> "portCheck", pid |-> 0]]

\* The try block of start() up to its await (lines 1108-1220): the binary is
\* looked up and spawned, or the lookup throws into the catch block
Spawn(id) ==
    \E found \in BOOLEAN :
      IF found
      THEN LET p == SetMin({ q \in Pids : ccProcs[q] = "none" })
           IN  /\ ccProcs' = [ccProcs EXCEPT ![p] = "live"]
               /\ ccProcess' = p
               /\ ccIsRunning' = TRUE
               /\ ccAttempts' = 0
               /\ ccCalls' = [ccCalls EXCEPT ![id].pc = "health", ![id].pid = p]
               /\ UNCHANGED ccIsStarting
      ELSE /\ ccIsRunning' = FALSE
           /\ ccProcess' = 0
           /\ ccIsStarting' = FALSE
           /\ ccCalls' = At(id, "threw")
           /\ UNCHANGED <<ccAttempts, ccProcs>>

\* what stop() has left to do once the service counts as stopped: return,
\* or go on with restart()
StopDone(c) ==
    IF c.op = "restart" THEN [c EXCEPT !.pc = "restartWait"]
    ELSE [c EXCEPT !.pc = "returned"]

\* a caller calls start()
CcStart ==
    /\ ccCount < MaxCalls
    /\ ccCount' = ccCount + 1
    /\ EnterStart(ccCount + 1, "start")
    /\ UNCHANGED <<ccScheduled, ccWin, ccIsRunning, ccAttempts, ccTimers, ccTimerRef, ccProcess,
                   ccLastError, ccProcs, ccPort>>
    /\ UNCHANGED outsideCc

\* the auto-restart timer fires (lines 1194-1197)
CcTimerFires ==
    /\ ccTimers > 0
    /\ ccCount < MaxCalls
    /\ ccTimers' = ccTimers - 1
    /\ ccTimerRef' = FALSE
    /\ ccCount' = ccCount + 1
    /\ EnterStart(ccCount + 1, "timerStart")
    /\ UNCHANGED <<ccScheduled, ccWin, ccIsRunning, ccAttempts, ccProcess, ccLastError, ccProcs,
                   ccPort>>
    /\ UNCHANGED outsideCc

\* start(): `await this.isPortInUse(8091)` comes back (1080-1081), or the
\* second check after the kill does (1096-1099)
CcPortChecked ==
    /\ \E id \in CallIds :
         /\ ccCalls[id].pc \in {"portCheck", "portRecheck"}
         /\ IF ~IsPortInUse
            THEN Spawn(id)
            ELSE /\ ccCalls' = At(id, IF ccCalls[id].pc = "portCheck" THEN "isClara"
                                      ELSE "threw")
                 /\ UNCHANGED <<ccIsRunning, ccProcess, ccIsStarting, ccAttempts, ccProcs>>
    /\ UNCHANGED <<ccScheduled, ccWin, ccStopped, ccTimers, ccTimerRef, ccLastError, ccPort,
                   ccCount>>
    /\ UNCHANGED outsideCc

\* start(): `await this.isClaraCoreRunningOnPort()` comes back (1085-1105)
CcIsClaraReturns ==
    /\ \E id \in CallIds :
         /\ ccCalls[id].pc = "isClara"
         /\ \E r \in ClaraAnswers : ccCalls' = At(id, IF r THEN "kill" ELSE "threw")
    /\ UNCHANGED <<ccScheduled, ccWin, ccIsRunning, ccIsStarting, ccStopped, ccAttempts, ccTimers,
                   ccTimerRef, ccProcess, ccLastError, ccProcs, ccPort, ccCount>>
    /\ UNCHANGED outsideCc

\* the process on port 8091 is gone after killExistingClaraCore
KillHolder ==
    /\ ccPort' = PortFree
    /\ ccProcs' = IF ccPort.kind = "child"
                  THEN [ccProcs EXCEPT ![ccPort.pid] = "exitNull"]
                  ELSE ccProcs

\* `await this.killExistingClaraCore()` comes back, in start() (1089-1093)
\* or in stop() on Windows (1275, 1286)
CcKillReturns ==
    /\ \E id \in CallIds :
         /\ ccCalls[id].pc \in {"kill", "stopKill1", "stopKill2"}
         /\ \E killed \in KillAnswers :
              /\ IF killed THEN KillHolder ELSE UNCHANGED <<ccPort, ccProcs>>
              /\ ccCalls' =
                   At(id, CASE ccCalls[id].pc = "kill" ->
                                 IF killed THEN "portRecheck" ELSE "threw"
                            [] ccCalls[id].pc = "stopKill1" -> "stopRecheck"
                            [] ccCalls[id].pc = "stopKill2" -> "stopFinal")
    /\ UNCHANGED <<ccScheduled, ccWin, ccIsRunning, ccIsStarting, ccStopped, ccAttempts, ccTimers,
                   ccTimerRef, ccProcess, ccLastError, ccCount>>
    /\ UNCHANGED outsideCc

\* start(): the 2-second wait and `await this.checkHealth()` come back
\* (1220-1238)
CcHealthReturns ==
    /\ \E id \in CallIds :
         /\ ccCalls[id].pc = "health"
         /\ \E healthy \in HealthAnswers :
              IF healthy
              THEN /\ ccCalls' = At(id, "returned")
                   /\ UNCHANGED <<ccIsRunning, ccProcess>>
              ELSE /\ ccCalls' = At(id, "threw")
                   /\ ccIsRunning' = FALSE
                   /\ ccProcess' = 0
    /\ ccIsStarting' = FALSE
    /\ UNCHANGED <<ccScheduled, ccWin, ccStopped, ccAttempts, ccTimers, ccTimerRef, ccLastError,
                   ccProcs, ccPort, ccCount>>
    /\ UNCHANGED outsideCc

\* a spawned process starts listening on port 8091
CcProcBinds ==
    /\ ~IsPortInUse
    /\ \E p \in Pids :
         /\ ccProcs[p] = "live"
         /\ ccPort' = HeldBy(p)
    /\ UNCHANGED <<ccScheduled, ccWin, ccIsRunning, ccIsStarting, ccStopped, ccAttempts, ccTimers,
                   ccTimerRef, ccProcess, ccLastError, ccProcs, ccCalls, ccCount>>
    /\ UNCHANGED outsideCc

\* A spawned process ends; what it wrote to stderr before is kept in
\* lastError (1210-1217)
CcProcExits ==
    /\ \E p \in Pids :
         /\ ccProcs[p] = "live"
         /\ \E e \in ExitKinds(p) :
              /\ ccProcs' = [ccProcs EXCEPT ![p] = e.status]
              /\ ccLastError' = IF e.stderr = "none" THEN ccLastError ELSE e.stderr
         /\ ccPort' = IF ccPort = HeldBy(p) THEN PortFree ELSE ccPort
    /\ UNCHANGED <<ccScheduled, ccWin, ccIsRunning, ccIsStarting, ccStopped, ccAttempts, ccTimers,
                   ccTimerRef, ccProcess, ccCalls, ccCount>>
    /\ UNCHANGED outsideCc

\* The 'exit' event of a process is delivered: the handler start() attached
\* (1164-1199) runs, then the one stop() attached, if any (1317-1323)
CcExitEvent ==
    /\ \E p \in Pids :
         /\ ccProcs[p] \in Exited
         /\ ccProcs' = [ccProcs EXCEPT ![p] = "gone"]
         /\ IF ccStopped
            THEN UNCHANGED <<ccAttempts, ccTimers, ccTimerRef, ccScheduled>>
            ELSE IF ccLastError = "bind"
            THEN /\ ccAttempts' = MaxRestartAttempts
                 /\ UNCHANGED <<ccTimers, ccTimerRef, ccScheduled>>
            ELSE IF ccProcs[p] = "exit1" /\ ccAttempts < MaxRestartAttempts
            THEN /\ ccAttempts' = ccAttempts + 1
                 /\ ccTimers' = ccTimers + 1
                 /\ ccTimerRef' = TRUE
                 /\ ccScheduled' = IF ccScheduled < MaxScheduled
                                    THEN ccScheduled + 1 ELSE ccScheduled
            ELSE UNCHANGED <<ccAttempts, ccTimers, ccTimerRef, ccScheduled>>
         /\ ccCalls' = [ id \in CallIds |->
                          IF ccCalls[id].pc = "awaitExit" /\ ccCalls[id].pid = p
                          THEN StopDone(ccCalls[id]) ELSE ccCalls[id] ]
    /\ ccIsRunning' = FALSE
    /\ ccProcess' = 0
    /\ ccIsStarting' = FALSE
    /\ UNCHANGED <<ccWin, ccStopped, ccLastError, ccPort, ccCount>>
    /\ UNCHANGED outsideCc

\* a caller calls stop() or restart(), which starts with stop()
\* (1244-1260, 1346-1348)
CcStop ==
    /\ ccCount < MaxCalls
    /\ ccCount' = ccCount + 1
    /\ ccStopped' = TRUE
    /\ IF ccTimerRef
       THEN /\ ccTimers' = ccTimers - 1
            /\ ccTimerRef' = FALSE
       ELSE UNCHANGED <<ccTimers, ccTimerRef>>
    /\ \E op \in {"stop", "restart"} :
         ccCalls' = [ccCalls EXCEPT ![ccCount + 1] =
                       [op |-> op, pc |-> "stopPortCheck", pid |-> 0]]
    /\ UNCHANGED <<ccScheduled, ccWin, ccIsRunning, ccIsStarting, ccAttempts, ccProcess,
                   ccLastError, ccProcs, ccPort>>
    /\ UNCHANGED outsideCc

\* stop(): `await this.isPortInUse(8091)` comes back (1260-1333): nothing to
\* stop, or the kill of the Windows branch is awaited, or SIGTERM is sent
\* and the exit of the process is awaited
CcStopPortChecked ==
    /\ \E id \in CallIds :
         /\ ccCalls[id].pc = "stopPortCheck"
         /\ IF (~IsPortInUse /\ ~ccIsRunning /\ ccProcess = 0)
               \/ (~ccWin /\ ccProcess = 0)
            THEN /\ ccIsRunning' = FALSE
                 /\ ccProcess' = 0
                 /\ ccCalls' = [ccCalls EXCEPT ![id] = StopDone(ccCalls[id])]
            ELSE IF ccWin
            THEN /\ ccCalls' = At(id, "stopKill1")
                 /\ UNCHANGED <<ccIsRunning, ccProcess>>
            ELSE /\ ccCalls' = [ccCalls EXCEPT ![id].pc = "awaitExit",
                                               ![id].pid = ccProcess]
                 /\ UNCHANGED <<ccIsRunning, ccProcess>>
    /\ UNCHANGED <<ccScheduled, ccWin, ccIsStarting, ccStopped, ccAttempts, ccTimers, ccTimerRef,
                   ccLastError, ccProcs, ccPort, ccCount>>
    /\ UNCHANGED outsideCc

\* stop(): the process did not exit within 5 seconds (1306-1314)
CcStopTimeout ==
    /\ \E id \in CallIds :
         /\ ccCalls[id].pc = "awaitExit"
         /\ ccCalls' = [ccCalls EXCEPT ![id] = StopDone(ccCalls[id])]
    /\ ccIsRunning' = FALSE
    /\ ccProcess' = 0
    /\ UNCHANGED <<ccScheduled, ccWin, ccIsStarting, ccStopped, ccAttempts, ccTimers, ccTimerRef,
                   ccLastError, ccProcs, ccPort, ccCount>>
    /\ UNCHANGED outsideCc

\* stop() on Windows: the wait and the port check after a kill come back
\* (1278-1301)
CcStopRechecked ==
    /\ \E id \in CallIds :
         /\ ccCalls[id].pc \in {"stopRecheck", "stopFinal"}
         /\ IF IsPortInUse /\ ccCalls[id].pc = "stopRecheck"
            THEN /\ ccCalls' = At(id, "stopKill2")
                 /\ UNCHANGED <<ccIsRunning, ccProcess>>
            ELSE /\ ccCalls' = IF IsPortInUse THEN At(id, "threw")
                               ELSE [ccCalls EXCEPT ![id] = StopDone(ccCalls[id])]
                 /\ ccIsRunning' = FALSE
                 /\ ccProcess' = 0
    /\ UNCHANGED <<ccScheduled, ccWin, ccIsStarting, ccStopped, ccAttempts, ccTimers, ccTimerRef,
                   ccLastError, ccProcs, ccPort, ccCount>>
    /\ UNCHANGED outsideCc

\* restart(): the 2-second wait after stop() is over, start() is entered
\* (1349-1350)
CcRestartContinues ==
    /\ \E id \in CallIds :
         /\ ccCalls[id].pc = "restartWait"
         /\ EnterStart(id, "restart")
    /\ UNCHANGED <<ccScheduled, ccWin, ccIsRunning, ccAttempts, ccTimers, ccTimerRef, ccProcess,
                   ccLastError, ccProcs, ccPort, ccCount>>
    /\ UNCHANGED outsideCc

CcNext ==
    \/ CcStart
    \/ CcTimerFires
    \/ CcPortChecked
    \/ CcIsClaraReturns
    \/ CcKillReturns
    \/ CcHealthReturns
    \/ CcProcBinds
    \/ CcProcExits
    \/ CcExitEvent
    \/ CcStop
    \/ CcStopPortChecked
    \/ CcStopTimeout
    \/ CcStopRechecked
    \/ CcRestartContinues

\* where a call of start(), stop() or restart() is once it is over
Finished == {"none", "returned", "threw", "skipped"}

\* A call that is over and a process whose 'exit' event has been handled
\* leave nothing behind in the service: their places are free again
CcReuse ==
    /\ ccCount > 0
    /\ \A id \in CallIds : ccCalls[id].pc \in Finished
    /\ \A p \in Pids : ccProcs[p] \in {"none", "gone"}
    /\ ccProcess = 0
    /\ ccCalls' = [c \in CallIds |-> NoCall]
    /\ ccProcs' = [p \in Pids |-> "none"]
    /\ ccCount' = 0
    /\ UNCHANGED <<ccScheduled, ccWin, ccIsRunning, ccIsStarting, ccStopped, ccAttempts,
                   ccTimers, ccTimerRef, ccProcess, ccLastError, ccPort>>
    /\ UNCHANGED outsideCc

\* start() has been called once on a new service and is at its first await
\* (1065-1080)
CcStartedOnce ==
    /\ ccWin \in BOOLEAN
    /\ ccIsRunning = FALSE
    /\ ccIsStarting = TRUE
    /\ ccStopped = FALSE
    /\ ccAttempts = 0
    /\ ccTimers = 0
    /\ ccTimerRef = FALSE
    /\ ccProcess = 0
    /\ ccLastError = "none"
    /\ ccProcs = [p \in Pids |-> "none"]
    /\ ccPort \in {PortFree} \cup ForeignHolders
    /\ ccCalls = [c \in CallIds |->
                    IF c = 1 THEN [op |-> "start", pc |-> "portCheck", pid |-> 0]
                    ELSE NoCall]
    /\ ccCount = 1
    /\ ccScheduled = 0

\* the service left to itself after that one start(): the process, its
\* events and the auto-restart timer, nobody calling start, stop or restart
CcAutoNext ==
    \/ CcTimerFires
    \/ CcPortChecked
    \/ CcIsClaraReturns
    \/ CcKillReturns
    \/ CcHealthReturns
    \/ CcProcBinds
    \/ CcProcExits
    \/ CcExitEvent
    \/ CcReuse

----------------------------------------------------------------------------
(* Two deploy invocations on the one shared service instance: the secret
   each of them stores in this.sudoPassword and the elevated commands
   composed with it *)

OvIds == {1, 2}

MaxSudo == 2

\* an elevated command with sudo in front and one with sudo behind a pipe
OvSudoLabels == {"sysStart", "aptKey"}

\* the instance is new (sudoPassword undefined) and deploy was not called
OvInit ==
    /\ ovConfig \in [OvIds -> Passwords]
    /\ ovPc = [i \in OvIds |-> "notCalled"]
    /\ ovLeft = [i \in OvIds |-> 0]
    /\ ovSudo = NullPassword
    /\ ovCmd = Empty
    /\ ovBy = 0

\* no deploy is made on the instance
OvIdle ==
    /\ ovConfig = [i \in OvIds |-> <<"p", "w">>]
    /\ ovPc = [i \in OvIds |-> "done"]
    /\ ovLeft = [i \in OvIds |-> 0]
    /\ ovSudo = NullPassword
    /\ ovCmd = Empty
    /\ ovBy = 0

\* deploy(config) is called: the secret is stored, the connection is started
\* (lines 276-282, 425-432)
OvDeploy ==
    /\ \E i \in OvIds :
         /\ ovPc[i] = "notCalled"
         /\ ovPc' = [ovPc EXCEPT ![i] = "connecting"]
         /\ ovSudo' = [set |-> TRUE, val |-> ovConfig[i]]
    /\ UNCHANGED <<ovConfig, ovLeft, ovCmd, ovBy>>
    /\ UNCHANGED outsideOv

\* conn.on('ready') of an invocation: its handler starts (292-294)
OvReady ==
    /\ \E i \in OvIds :
         /\ ovPc[i] = "connecting"
         /\ ovPc' = [ovPc EXCEPT ![i] = "running"]
         /\ ovLeft' = [ovLeft EXCEPT ![i] = MaxSudo]
    /\ UNCHANGED <<ovConfig, ovSudo, ovCmd, ovBy>>
    /\ UNCHANGED outsideOv

\* the handler of an invocation hands an elevated command to execCommand,
\* which composes it with this.sudoPassword as it is now (683-699)
OvElevated ==
    /\ \E i \in OvIds :
         /\ ovPc[i] = "running"
         /\ ovLeft[i] > 0
         /\ ovLeft' = [ovLeft EXCEPT ![i] = ovLeft[i] - 1]
         /\ ovBy' = i
         /\ \E l \in OvSudoLabels :
              ovCmd' = ComposeSudo(ovSudo, CommandText(l, "cuda", <<"clara">>))
    /\ UNCHANGED <<ovConfig, ovPc, ovSudo>>
    /\ UNCHANGED outsideOv

\* the handler of an invocation reaches the end of its try block or its
\* catch block: this.sudoPassword = null (357-361, 372-378)
OvFinish ==
    /\ \E i \in OvIds :
         /\ ovPc[i] = "running"
         /\ ovPc' = [ovPc EXCEPT ![i] = "done"]
    /\ ovSudo' = NullPassword
    /\ UNCHANGED <<ovConfig, ovLeft, ovCmd, ovBy>>
    /\ UNCHANGED outsideOv

\* conn.on('error') of an invocation: this.sudoPassword = null (399-404);
\* its session is down, it sends nothing more
OvSshError ==
    /\ \E i \in OvIds :
         /\ ovPc[i] \in {"connecting", "running"}
         /\ ovPc' = [ovPc EXCEPT ![i] = "done"]
    /\ ovSudo' = NullPassword
    /\ UNCHANGED <<ovConfig, ovLeft, ovCmd, ovBy>>
    /\ UNCHANGED outsideOv

OvNext ==
    \/ OvDeploy
    \/ OvReady
    \/ OvElevated
    \/ OvFinish
    \/ OvSshError

----------------------------------------------------------------------------
(* One remote host over several deployments: what the docker commands of
   deploy do to the containers that earlier deployments left there *)

\* the names deploy gives its containers
HostNames == { ContainerName(k) : k \in HardwareTypes }

\* a container that publishes the port holds it while it runs
PortTaken(cs) == \E n \in HostNames : cs[n] = "running"

\* `docker stop NAME`: a running container of that name is stopped
DockerStop(cs, n) ==
    IF n \in HostNames /\ cs[n] = "running" THEN [cs EXCEPT ![n] = "exited"] ELSE cs

\* `docker rm NAME`: a container of that name is removed unless it runs
DockerRm(cs, n) ==
    IF n \in HostNames /\ cs[n] \in {"created", "exited"}
    THEN [cs EXCEPT ![n] = "absent"] ELSE cs

\* `docker run -d --name NAME -p 5890:5890 ...`: refused when the name is
\* in use; created but not started when the port is already allocated
DockerRun(cs, n) ==
    IF n \notin HostNames \/ cs[n] # "absent" THEN cs
    ELSE IF PortTaken(cs) THEN [cs EXCEPT ![n] = "created"]
    ELSE [cs EXCEPT ![n] = "running"]

\* what the docker daemon of the host does with a command of deploy
HostExec(cs, cmd) ==
    IF StartsWith(cmd, W(<<"docker", "stop">>))
    THEN DockerStop(cs, After(cmd, <<"stop", " ">>))
    ELSE IF StartsWith(cmd, W(<<"docker", "rm">>))
    THEN DockerRm(cs, After(cmd, <<"rm", " ">>))
    ELSE IF StartsWith(cmd, W(<<"docker", "run">>))
              /\ Includes(cmd, <<"-p", " ">> \o PortText \o <<":">> \o PortText)
    THEN DockerRun(cs, After(cmd, <<"--name", " ">>))
    ELSE cs

\* `docker ps -q -f name=NAME` prints the id of the running container
DockerPs(cs, cmd) ==
    LET n == After(cmd, <<"name=">>)
    IN  IF n \in HostNames /\ cs[n] = "running" THEN <<"c0ffee">> ELSE Empty

\* the steps of deploy from the cleanup to the verification (318-338)
HostSteps == {"dockerStop", "dockerRm", "dockerPull", "dockerRun", "sleep5", "dockerPs"}

\* a host on which nothing has been deployed yet
HostInit ==
    /\ hostContainers = [n \in HostNames |-> "absent"]
    /\ hdKind = "cpu"
    /\ hdPc = "idle"
    /\ hdRuns = 0
    /\ hdOutcome = "none"

\* no deployment is made
HostIdle ==
    /\ hostContainers = [n \in HostNames |-> "absent"]
    /\ hdKind = "cpu"
    /\ hdPc = "idle"
    /\ hdRuns = MaxDeployments
    /\ hdOutcome = "none"

\* A further deploy is made, every deploy before it having succeeded; docker
\* and the prerequisites of the kind are in place, so the handler comes to
\* its cleanup step
HostDeploy ==
    /\ hdPc = "idle"
    /\ hdOutcome # "failed"
    /\ hdRuns < MaxDeployments
    /\ hdRuns' = hdRuns + 1
    /\ \E k \in HardwareTypes : hdKind' = k
    /\ hdPc' = "dockerStop"
    /\ UNCHANGED <<hostContainers, hdOutcome>>
    /\ UNCHANGED outsideHost

\* the awaited command of the deployment has run on the host and returns
\* (320-338): the next one is issued, or the deployment ends after the
\* verification, failed when `docker ps` printed nothing
HostCommandReturns ==
    /\ hdPc \in HostSteps
    /\ hostContainers' = HostExec(hostContainers, CommandText(hdPc, hdKind, Empty))
    /\ IF hdPc = "dockerPs"
       THEN /\ hdPc' = "idle"
            /\ hdOutcome' =
                 IF Truthy(Trim(DockerPs(hostContainers,
                                         CommandText(hdPc, hdKind, Empty))))
                 THEN "success" ELSE "failed"
       ELSE /\ hdPc' = Succ(hdPc)
            /\ UNCHANGED hdOutcome
    /\ UNCHANGED <<hdKind, hdRuns>>
    /\ UNCHANGED outsideHost

HostNext ==
    \/ HostDeploy
    \/ HostCommandReturns

----------------------------------------------------------------------------
(* the specifications *)

\* detectHardware is not running during a deployment
DetectIdle ==
    /\ dpc = "idle"
    /\ probeOut = [l \in ProbeLabels |-> NotProbed]
    /\ details = InitDetails
    /\ detectResult = NoResult

\* no deployment is running while detectHardware is studied
DeployIdle ==
    /\ hardwareType = "cpu"
    /\ password = <<"p", "w">>
    /\ hostArch = <<"x86_64">>
    /\ hostDocker = FALSE
    /\ connState = "closed"
    /\ endCount = 0
    /\ timer = "cleared"
    /\ isResolved = FALSE
    /\ settled = "pending"
    /\ result = NoResultYet
    /\ sudoPassword = NullPassword
    /\ pc = "done"
    /\ sent = FALSE
    /\ lastCmd = Empty
    /\ lastLogs = {}
    /\ steps = <<"connecting">>
    /\ hasDocker = FALSE
    /\ user = Empty
    /\ hasApt = FALSE
    /\ logsOut = Empty
    /\ isRunning = Empty
    /\ allOk = TRUE
    /\ lastReturn = NoReturn
    /\ inFlight = 0

Init == DeployInit /\ DetectIdle /\ TestIdle /\ IpcIdle /\ UiIdle /\ CcIdle /\ OvIdle /\ HostIdle

Spec == Init /\ [][Next]_vars

\* The client gives up a connection attempt after readyTimeout (line 431)
ConnectGivesUp == connState = "connecting" /\ SshError

\* Timers fire: the 5-minute watchdog of deploy and the readyTimeout of the
\* client.  Nothing is assumed of the remote host.
SpecLive == Init /\ [][Next]_vars /\ WF_vars(Timeout) /\ WF_vars(ConnectGivesUp)


\* detectHardware(conn) is entered; no deployment is running
InitDetect == DetectInit /\ DeployIdle /\ TestIdle /\ IpcIdle /\ UiIdle /\ CcIdle /\ OvIdle /\ HostIdle

SpecDetect == InitDetect /\ [][DetectNext]_vars

\* testSetup(config) is under way; no deployment is running
InitTest == TestInit /\ DetectIdle /\ DeployIdle /\ IpcIdle /\ UiIdle /\ CcIdle /\ OvIdle /\ HostIdle

SpecTest == InitTest /\ [][TestNext]_vars

\* The connection attempts of deploy and of testSetup against a host that
\* never lets a session become ready
TestConnectFails == testConn = "connecting" /\ TestSshError

TestConnectTimesOut == testConn = "connecting" /\ TestTimeout

ConnectNext ==
    \/ ConnectGivesUp
    \/ TestConnectFails
    \/ TestConnectTimesOut

InitConnect == DeployInit /\ TestInit /\ DetectIdle /\ IpcIdle /\ UiIdle /\ CcIdle /\ OvIdle /\ HostIdle

SpecConnect == InitConnect /\ [][ConnectNext]_vars

\* one invocation of an IPC handler; the service behind it is not modelled
InitIpc == IpcInit /\ DetectIdle /\ DeployIdle /\ TestIdle /\ UiIdle /\ CcIdle /\ OvIdle /\ HostIdle

SpecIpc == InitIpc /\ [][IpcNext]_vars

\* the Deploy button of the settings page, pressed up to MaxDeployments times
InitUi == UiInit /\ DetectIdle /\ DeployIdle /\ TestIdle /\ IpcIdle /\ CcIdle /\ OvIdle /\ HostIdle

SpecUi == InitUi /\ [][UiNext]_vars

\* one ClaraCoreService and up to MaxCalls calls of start, stop and restart,
\* those made by the auto-restart timer included
InitCc == CcInit /\ DetectIdle /\ DeployIdle /\ TestIdle /\ IpcIdle /\ UiIdle /\ OvIdle /\ HostIdle

SpecCc == InitCc /\ [][CcNext]_vars

\* one start(), then only the process and the auto-restart timer act
InitCcAuto == CcStartedOnce /\ DetectIdle /\ DeployIdle /\ TestIdle /\ IpcIdle /\ UiIdle /\ OvIdle /\ HostIdle

SpecCcAuto == InitCcAuto /\ [][CcAutoNext]_vars

\* two deploy calls on the shared instance, in any order and overlap
InitOv ==
    OvInit /\ DetectIdle /\ DeployIdle /\ TestIdle /\ IpcIdle /\ UiIdle /\ CcIdle /\ HostIdle

SpecOv == InitOv /\ [][OvNext]_vars

\* up to MaxDeployments deployments, one after the other, on one host
InitHost ==
    HostInit /\ DetectIdle /\ DeployIdle /\ TestIdle /\ IpcIdle /\ UiIdle /\ CcIdle /\ OvIdle

SpecHost == InitHost /\ [][HostNext]_vars

----------------------------------------------------------------------------
(* Claims about detectHardware, checked under SpecDetect *)

ArchIsArmFamily == 
    \/ Includes(probeOut["arch"], <<"arm">>)
    \/ Includes(probeOut["arch"], <<"aarch">>)

NvidiaReportsDevice ==
    /\ probeOut["nvidia"] # NotProbed
    /\ Trim(probeOut["nvidia"]) # Empty
    /\ ~Includes(probeOut["nvidia"], CommandNotFound)

RocmReportsDevice ==
    /\ probeOut["rocm"] # NotProbed
    /\ Trim(probeOut["rocm"]) # Empty
    /\ ~Includes(probeOut["rocm"], CommandNotFound)

CpuHasStrixSignature ==
    /\ probeOut["cpu"] # NotProbed
    /\ \E sig \in {<<"Ryzen AI Max">>, <<"Strix">>, <<"8040">>} :
          Includes(probeOut["cpu"], sig)

CudaCompilerVersionFound ==
    /\ probeOut["cuda"] # NotProbed
    /\ ReplaceFirst(Trim(probeOut["cuda"]), <<",">>, Empty) # Empty

\* C5: whenever detectHardware returns for a host whose architecture string
\* contains 'arm' or 'aarch', it returns the unsupported classification with
\* confidence high and a non-empty explanatory error naming the architecture,
\* whatever the Docker, NVIDIA, ROCm and CPU-model probes reported.
C5_ArmIsUnsupported ==
    (dpc = "returned" /\ ArchIsArmFamily)
        => /\ detectResult.detected = "unsupported"
           /\ detectResult.confidence = "high"
           /\ detectResult.unsupportedReason = "arm"
           /\ detectResult.error # Empty
           /\ Includes(detectResult.error, Trim(probeOut["arch"]))

\* C5 witness: an aarch64 host on which Docker, NVIDIA and ROCm all answered
\* was classified unsupported.
C5_Witness ==
    /\ dpc = "returned"
    /\ Includes(probeOut["arch"], <<"aarch">>)
    /\ details.docker /\ NvidiaReportsDevice /\ RocmReportsDevice
    /\ detectResult.detected = "unsupported"

\* C6 as stated: whenever the NVIDIA device query reports a device,
\* detectHardware classifies the host as cuda.
C6_NvidiaAlwaysCuda ==
    (dpc = "returned" /\ NvidiaReportsDevice) => detectResult.detected = "cuda"

\* C6 as amended: on a host whose architecture is not of the ARM family,
\* whenever the NVIDIA device query reports a device, detectHardware
\* classifies the host as cuda, whatever the Strix CPU signature and the
\* ROCm probe report.
C6_NvidiaCudaOnNonArm ==
    (dpc = "returned" /\ ~ArchIsArmFamily /\ NvidiaReportsDevice)
        => detectResult.detected = "cuda"

\* C6 witness: NVIDIA, ROCm and a Strix CPU signature on one x86_64 host,
\* classified cuda.
C6_Witness ==
    /\ dpc = "returned"
    /\ ~ArchIsArmFamily
    /\ NvidiaReportsDevice /\ RocmReportsDevice /\ CpuHasStrixSignature
    /\ detectResult.detected = "cuda"

\* C7: on a non-ARM host the classification and the confidence equal the
\* first-match rule table: cuda if NVIDIA reports a device (high if the CUDA
\* compiler version was found, else medium), else strix if the CPU model has
\* a known signature, else rocm if the ROCm tool reports a device, else cpu;
\* confidence high in every non-cuda case.
C7_RuleTable ==
    (dpc = "returned" /\ ~ArchIsArmFamily)
        => /\ detectResult.detected =
                (IF NvidiaReportsDevice THEN "cuda"
                 ELSE IF CpuHasStrixSignature THEN "strix"
                 ELSE IF RocmReportsDevice THEN "rocm"
                 ELSE "cpu")
           /\ detectResult.confidence =
                (IF NvidiaReportsDevice /\ ~CudaCompilerVersionFound
                 THEN "medium" ELSE "high")

\* C7 witness: no NVIDIA device, both a Strix signature and a ROCm device:
\* the earlier rule (strix) won.
C7_Witness ==
    /\ dpc = "returned"
    /\ ~ArchIsArmFamily
    /\ ~NvidiaReportsDevice /\ CpuHasStrixSignature /\ RocmReportsDevice
    /\ detectResult.detected = "strix"
    /\ detectResult.confidence = "high"

----------------------------------------------------------------------------
(* Claims about deploy, checked under Spec *)

HostIsArm == Includes(hostArch, <<"arm">>) \/ Includes(hostArch, <<"aarch">>)

SessionOpened == pc # "idle"

Settled == settled # "pending"

\* C1: once a deploy invocation that opened an SSH session has settled,
\* conn.end() has been called exactly once, on every path (success, failed
\* step, SSH 'error' event, deployment timeout).
C1_ClosedExactlyOnce ==
    (Settled /\ SessionOpened) => endCount = 1

\* C2: whenever a deploy invocation has settled, on any path, sudoPassword
\* is null.
C2_SecretClearedOnSettle ==
    Settled => ~sudoPassword.set

\* C3: deploy never rejects: on every path it settles by resolving with a
\* result object that carries a success flag and, on failure, a non-empty
\* error message.
C3_AlwaysResolvesWithResult ==
    Settled => /\ settled = "resolved"
               /\ (~result.success => result.error # Empty)

\* C4: on a host of the ARM family no Docker-install, accelerator-setup,
\* cleanup, image-pull or container-run command is awaited by deploy, and a
\* settled deploy has failed there.
C4_ArmFailsFast ==
    HostIsArm =>
        /\ pc \notin (InstallDockerLabels \cup SetupLabels
                        \cup {"dockerStop", "dockerRm", "dockerPull", "dockerRun"})
        /\ (Settled => ~result.success)

Rank(st) == CHOOSE k \in 1..Len(StepOrder) : StepOrder[k] = st

\* C8: within one deploy attempt the steps are entered in the declared order:
\* every step entered later stands later in connecting, checking-docker,
\* installing-prerequisites, cleaning-up, pulling-image, deploying,
\* verifying, complete; hence no step is entered twice.
C8_StepsInDeclaredOrder ==
    \A i \in 1..Len(steps) : \A j \in 1..Len(steps) :
        i < j => Rank(steps[i]) < Rank(steps[j])

\* C8 witness: a deployment that entered all eight steps.
C8_Witness == steps = StepOrder

\* C9: no message logged by a step of deploy, and no message returned to
\* the caller, contains the secret; the secret goes out only inside the
\* composed command handed to conn.exec.
C9_NoSecretInMessages ==
    /\ \A m \in lastLogs : ~Includes(m, password)
    /\ ~Includes(result.error, password)
    /\ ~Includes(result.url, password)
    /\ ~Includes(result.containerName, password)

\* C9 witness: an elevated command failed and was reported in the log, and
\* the next elevated command went out composed with the secret.
C9_Witness ==
    /\ \E m \in lastLogs :
          Includes(m, <<"Command failed (code ">>) /\ Includes(m, <<"sudo">>)
    /\ sent
    /\ Includes(lastCmd, <<"sudo", " ", "-S">>)
    /\ Includes(lastCmd, password)

ScenarioA ==
    /\ hostArch = <<"x86_64">>
    /\ ~hostDocker
    /\ hardwareType = "cpu"
    /\ allOk
    /\ Trim(isRunning) # Empty

\* C10: on an x86_64 host without Docker and without accelerator tooling
\* (hardware type cpu), when every remote command has succeeded and docker ps
\* lists the container, the finished deploy has entered connecting,
\* checking-docker, installing-prerequisites, cleaning-up, pulling-image,
\* deploying, verifying and complete in that order and has resolved with
\* success, the container name and a URL on the published port.
C10_ScenarioA ==
    (pc = "done" /\ ScenarioA)
        => /\ steps = StepOrder
           /\ settled = "resolved"
           /\ result.success
           /\ result.containerName = <<"claracore-", "cpu">>
           /\ result.url = <<"http://">> \o Host \o <<":", "5890">>

\* C10 witness: scenario A ran to the end.
C10_Witness ==
    /\ pc = "done"
    /\ ScenarioA
    /\ result.success
    /\ Len(steps) = Len(StepOrder)

----------------------------------------------------------------------------
(* Claims about the verification, cleanup and pull steps of deploy *)

StartError == <<"Container failed to start.\n\nStatus: ">>

\* C11: when docker ps did not list the container and the log and inspect
\* commands have come back, deploy resolves with success = false and a
\* message that begins "Container failed to start." and carries a non-empty
\* excerpt of the captured container logs, cut at 500 characters.
C11_ContainerStartErrorWithLogs ==
    [][ (pc = "dockerInspect" /\ pc' = "done" /\ settled = "pending"
            /\ ~lastReturn'.rejected)
        => /\ settled' = "resolved"
           /\ ~result'.success
           /\ StartsWith(result'.error, StartError)
           /\ Trim(Substring(logsOut, 0, LogExcerptLen)) # Empty
           /\ Includes(result'.error, Substring(logsOut, 0, LogExcerptLen)) ]_vars

CleanupLabels == {"dockerStop", "dockerRm"}

\* C12: whatever exit code and output the stop and the remove command of the
\* cleanup step come back with, the handler goes on to the next command
\* (remove after stop, pull after remove) and the outcome of deploy is left
\* as it was; so a second run, which finds or does not find a container
\* of that name, does not fail at the cleanup step.
C12_CleanupFailuresSwallowed ==
    [][ (pc \in CleanupLabels /\ pc' # pc /\ lastReturn'.code # "none")
        => /\ pc' = (IF pc = "dockerStop" THEN "dockerRm" ELSE "dockerPull")
           /\ UNCHANGED <<settled, result, endCount, connState>> ]_vars

\* C12 witness: the stop command failed on the host and the remove command
\* was sent all the same.
C12_Witness ==
    /\ pc = "dockerRm"
    /\ sent
    /\ lastReturn.code = "1"
    /\ settled = "pending"

PullFailed == <<"Command failed with code ", "1">>

\* C13: when the image pull exits non-zero, deploy ends there: it resolves
\* with success = false and the error of the pull, having entered no step
\* after pulling-image, and no further command (container run, docker ps,
\* logs, inspect, health probe) is ever awaited.
C13_PullFailureIsFatal ==
    [][ /\ (pc = "dockerPull" /\ pc' # pc /\ lastReturn'.code = "1")
            => /\ pc' = "done"
               /\ settled' = "resolved"
               /\ ~result'.success
               /\ result'.error = PullFailed
               /\ steps'[Len(steps')] = "pulling-image"
        /\ (pc = "done" => pc' = "done") ]_vars

\* C13 witness: a deploy that ended on a failed pull.
C13_Witness ==
    /\ pc = "done"
    /\ steps[Len(steps)] = "pulling-image"
    /\ lastReturn.code = "1"
    /\ result.error = PullFailed

HealthWarning ==
    <<"[Remote] Service health endpoint not available, but container is running">>

\* C14: when docker ps listed the container and the health probe comes back,
\* whatever it reports, a deploy that has not been settled by the watchdog
\* resolves with success; an unavailable endpoint only adds a warning to the
\* log.
C14_HealthWarningOnly ==
    [][ (pc = "healthCheck" /\ pc' # pc /\ lastReturn'.code # "none"
            /\ settled = "pending")
        => /\ settled' = "resolved"
           /\ result'.success
           /\ (Includes(lastReturn'.value, <<"Health check not available">>)
                 => HealthWarning \in lastLogs') ]_vars

\* C14 witness: a deploy that succeeded with the health warning in its log.
C14_Witness ==
    /\ pc = "done"
    /\ result.success
    /\ HealthWarning \in lastLogs
    /\ Includes(lastReturn.value, <<"Health check not available">>)

\* C15: a command that exits non-zero never makes the call of the executor
\* reject, in either variant of the executor.
C15_NonZeroExitIsData ==
    lastReturn.code = "1" => ~lastReturn.rejected

----------------------------------------------------------------------------
(* Claims about the watchdog and the termination of deploy *)

TimeoutError == <<"Deployment timeout after 5 minutes">>

\* C17: when the watchdog expires on an unsettled deploy, the session is
\* closed and the invocation resolves with the timeout error, and no command
\* goes out to the host afterwards.
C17_WatchdogResolvesTimeout ==
    [][ /\ (timer = "armed" /\ timer' = "fired" /\ settled = "pending")
            => /\ connState' = "closed"
               /\ settled' = "resolved"
               /\ ~result'.success
               /\ result'.error = TimeoutError
        /\ (timer = "fired" /\ pc' # pc) => ~sent' ]_vars

\* C18: every deploy invocation eventually settles, whatever the host and
\* the connection do, given that timers fire.
C18_EventuallySettles == <>(settled # "pending")

\* C18 witness: a command never came back and the watchdog settled the
\* invocation.
C18_Witness ==
    /\ pc \in Labels \ SleepLabels
    /\ sent
    /\ timer = "fired"
    /\ settled # "pending"

----------------------------------------------------------------------------
(* Claims about connection failures, checked under SpecConnect *)

AuthTexts ==
    { <<"SSH authentication failed. Please check your username and password.">>,
      <<"All configured authentication methods failed">> }

RefusedTexts ==
    { <<"Connection refused. Please check the host and port.">>,
      <<"connect ECONNREFUSED">> }

TimeoutTexts ==
    { <<"Connection timeout. Please check the host address and your network connection.">>,
      <<"connect ETIMEDOUT">>,
      <<"Timed out while waiting for handshake">>,
      <<"Connection timeout after 30 seconds">> }

\* the cause a caller reads out of a reported message
ReportedCause(msg) ==
    IF msg \in AuthTexts THEN "authentication"
    ELSE IF msg \in RefusedTexts THEN "refused"
    ELSE IF msg \in TimeoutTexts THEN "timeout"
    ELSE "unknown"

\* the cause behind an error of the client
CauseOf(e) ==
    IF e.level = "client-authentication" THEN "authentication"
    ELSE IF e.code = "ECONNREFUSED" THEN "refused"
    ELSE "timeout"

\* C16: a failed connection attempt makes deploy and testSetup fail with a
\* message that tells the cause: authentication rejection, connection refusal
\* and connect timeout are each reported by texts of their own.
C16_ConnectCausesDistinct ==
    /\ \A e \in ConnectErrors :
         (settled # "pending"
            /\ lastLogs = { <<"SSH connection error during deployment: ">> \o e.message })
         => (~result.success /\ ReportedCause(result.error) = CauseOf(e))
    /\ \A e \in ConnectErrors :
         (testSettled # "pending"
            /\ testLog = { <<"SSH connection error: ">> \o e.message })
         => (~testResult.success /\ ReportedCause(testResult.error) = CauseOf(e))
    /\ (testSettled # "pending" /\ testTimer = "fired")
         => (~testResult.success /\ ReportedCause(testResult.error) = "timeout")

\* C16 witness: deploy was refused and testSetup was rejected at
\* authentication.
C16_Witness ==
    /\ settled = "resolved"
    /\ ReportedCause(result.error) = "refused"
    /\ testSettled = "resolved"
    /\ ReportedCause(testResult.error) = "authentication"

----------------------------------------------------------------------------
(* Claims about testSetup, checked under SpecTest *)

TestSessionOpened == dpc # "idle"

\* C19: once a testSetup invocation that opened a session has settled, it
\* has resolved (with a snapshot result) and conn.end() has been called, on
\* every path: detection returned, detection threw, 'error' event, timeout.
C19_TestSessionClosedOnSettle ==
    (testSettled # "pending" /\ TestSessionOpened)
        => (testSettled = "resolved" /\ testEnds >= 1)

----------------------------------------------------------------------------
(* Claims about the IPC handlers, checked under SpecIpc *)

\* C20: a handler that has finished has returned a result object to its
\* caller and has not thrown; when the service call or the stop callback
\* raised an error, the result is {success: false, error: message} with the
\* message of that error.
C20_HandlersNeverThrow ==
    ipcPc = "done"
        => /\ ipcReturn.how = "returned"
           /\ (ipcRaised # Empty
                 => (~ipcReturn.success /\ ipcReturn.error = ipcRaised))

\* C20 witness: the stop callback of the deploy handler rejected and the
\* handler returned the failure.
C20_Witness ==
    /\ ipcPc = "done"
    /\ ipcHandler = "remote-server:deploy"
    /\ ipcRaised = <<"Failed to stop local services">>
    /\ ipcReturn.how = "returned"

----------------------------------------------------------------------------
(* deploy(config): one command at a time *)

\* C22: within one deploy invocation at most one remote command is in flight,
\* and it is the one the handler awaits: whenever a command is handed to
\* conn.exec, every command issued before it has returned.
C22_OneCommandInFlight ==
    /\ inFlight \in {0, 1}
    /\ (inFlight = 1 => sent /\ pc \in Labels \ SleepLabels)
    /\ (sent => inFlight = 1)

\* C22 witness: the image pull is running, alone, after the commands of the
\* earlier steps.
C22_Witness ==
    /\ pc = "dockerPull"
    /\ sent
    /\ inFlight = 1
    /\ Len(steps) >= 4

----------------------------------------------------------------------------
(* deploy(config): failures of the installation steps *)

\* the commands of the Docker installation, of the accelerator setup and of
\* the image pull that change the host (the probes among them left out)
FatalStepCommands ==
    { "curlScript", "runScript", "usermod1", "sysStart", "sysEnable",
      "aptKey", "aptRepo", "aptUpdate", "aptInstall", "yumRepo", "yumInstall",
      "ctkConfigure", "daemonReload", "restartDocker", "contextUse", "usermod2",
      "rocmGroups", "udevRules", "udevReload", "udevTrigger", "strixGroups",
      "dockerPull" }

\* C23: when a command of a fatal step (Docker installation, accelerator
\* setup, image pull) exits non-zero, deploy aborts at once: the handler
\* issues no further command and the result is a failure.
C23_FatalStepAborts ==
    [][ (pc \in FatalStepCommands /\ pc' # pc /\ lastReturn'.code = "1")
        => /\ pc' = "done"
           /\ ~result'.success ]_vars

\* C24: when a command of the Docker installation fails with something on
\* its output, deploy fails with an installation error that carries that
\* output.
C24_InstallErrorCarriesOutput ==
    [][ (/\ pc \in InstallDockerLabels
         /\ pc' # pc
         /\ lastReturn'.rejected
         /\ lastReturn'.code = "1"
         /\ Truthy(Trim(lastReturn'.output))
         /\ settled = "pending")
        => /\ settled' = "resolved"
           /\ ~result'.success
           /\ StartsWith(result'.error, <<"Failed to install Docker: ">>)
           /\ Includes(result'.error, Trim(lastReturn'.output)) ]_vars

----------------------------------------------------------------------------
(* deploy(config): when the prerequisites are installed *)

\* C25 as stated: commands of the Docker installation and of the accelerator
\* setup are awaited only in a deployment whose Docker check found Docker
\* absent.
C25_PrereqOnlyIfDockerAbsent ==
    pc \in InstallDockerLabels \cup SetupLabels => ~hasDocker

\* C25 amended: the Docker installation is entered exactly when the Docker
\* check does not come back with a version; the accelerator setup goes by
\* the hardware kind alone, with or without Docker: after a check that found
\* Docker the handler starts the setup of a cuda, rocm or strix deployment
\* and goes straight to cleaning-up for every other kind, and a setup
\* command is only ever awaited in a deployment of its own kind.
C25_PrereqByDockerAndKind ==
    [][ /\ (pc = "dockerVersion" /\ pc' # pc /\ lastReturn'.code = "1")
            => pc' = "osRelease"
        /\ (pc = "dockerVersion" /\ pc' # pc /\ lastReturn'.code = "0")
            => /\ hasDocker'
               /\ hardwareType = "cuda" => pc' = "nvidiaCheck"
               /\ hardwareType = "rocm" => pc' = "rocmGroups"
               /\ hardwareType = "strix" => pc' = "udevRules"
               /\ hardwareType \in {"cpu", "tpu"} => pc' = "dockerStop"
        /\ (pc' \in InstallDockerLabels => ~hasDocker')
        /\ (pc' \in SetupCudaLabels => hardwareType = "cuda")
        /\ (pc' = "rocmGroups" => hardwareType = "rocm")
        /\ (pc' \in SetupLabels \ (SetupCudaLabels \cup {"rocmGroups"})
              => hardwareType = "strix") ]_vars

\* C25 witness: Docker was found and the CUDA setup is under way.
C25_Witness ==
    /\ hostDocker
    /\ hasDocker
    /\ pc = "ctkConfigure"
    /\ sent

----------------------------------------------------------------------------
(* execCommand / execCommandWithOutput: pipelines run with sudo *)

\* the text of the pipeline stage whose output is the standard input of the
\* first sudo of s; empty when no stage precedes that sudo
StdinOfSudo(s) ==
    LET at == SetMin({ k \in 1..Len(s) : s[k] = "sudo" })
        pipes == { k \in 1..(at - 1) : s[k] = "|" }
    IN  IF pipes = {} THEN Empty
        ELSE LET p == SetMax(pipes)
                 q == SetMax({ k \in 1..(p - 1) : s[k] = "|" } \cup {0})
             IN  SubSeq(s, q + 1, p - 1)

\* the shell words that write the secret pw to a pipe
EchoSecret(pw) == <<"echo", " ", "'">> \o EscapePassword(pw) \o <<"'">>

\* C26: whenever the handler awaits a sudo command that contains a pipeline
\* and the password is stored, the text sent to the host feeds the secret to
\* the standard input of the sudo stage itself: the stage just upstream of
\* sudo writes the secret.
C26_SecretReachesSudo ==
    LET command == CommandText(pc, hardwareType, user)
    IN  (/\ pc \in Labels \ SleepLabels
         /\ sudoPassword.set
         /\ Includes(command, <<"|">>)
         /\ Includes(command, <<"sudo">>))
        => Includes(StdinOfSudo(lastCmd), EchoSecret(password))

----------------------------------------------------------------------------
(* deploy(config): a rejected sudo password *)

IncorrectSudoPassword ==
    <<"Incorrect sudo password. Please verify your SSH password and try again.">>

\* C27: when the host rejects the password of a sudo command (the command
\* exits non-zero with sudo's "incorrect password" on its output), deploy
\* fails there and reports the incorrect sudo password, whichever sudo
\* command it was.
C27_SudoRejectionClassified ==
    [][ (/\ pc \in SudoLabels
         /\ pc' # pc
         /\ lastReturn'.code = "1"
         /\ Includes(lastReturn'.output, <<"incorrect password">>)
         /\ settled = "pending")
        => /\ pc' = "done"
           /\ settled' = "resolved"
           /\ ~result'.success
           /\ result'.error = IncorrectSudoPassword ]_vars

----------------------------------------------------------------------------
(* buildDockerRunCommand: the flags of `docker run` *)

Atoms(s) == { s[i] : i \in DOMAIN s }

\* every word a device flag of `docker run` is made of
DeviceWords ==
    { "--gpus", "all", "--device=/dev/kfd", "--device=/dev/dri", "--group-add",
      "video", "--ipc=host", "--cap-add=SYS_PTRACE", "--security-opt",
      "seccomp=unconfined" }

\* the device flags each accelerator kind is to get
ExpectedDeviceWords(hw) ==
    CASE hw = "cuda" -> { "--gpus", "all" }
      [] hw = "rocm" ->
           { "--device=/dev/kfd", "--device=/dev/dri", "--group-add", "video",
             "--ipc=host", "--cap-add=SYS_PTRACE", "--security-opt",
             "seccomp=unconfined" }
      [] hw = "strix" ->
           { "--device=/dev/dri", "--group-add", "video", "--security-opt",
             "seccomp=unconfined" }
      [] OTHER -> {}

\* C28: the command handed to the host to start the container has, for every
\* hardware kind, the baseline flags (detached, restart policy, container
\* name, port mapping, downloads volume) and the image, and exactly the
\* device flags of that kind: --gpus all for cuda, the device nodes, group
\* and security options for rocm and for strix, none for cpu and for a kind
\* the builder does not know.
C28_RunCommandFlags ==
    pc = "dockerRun" =>
        /\ StartsWith(lastCmd, W(<<"docker", "run", "-d">>))
        /\ Includes(lastCmd, <<"--name", " ", "claracore-", hardwareType, " ">>)
        /\ Includes(lastCmd, <<" ">> \o W(<<"--restart", "unless-stopped">>) \o <<" ">>)
        /\ Includes(lastCmd, <<" ", "-p", " ">> \o PortText \o <<":">> \o PortText \o <<" ">>)
        /\ Includes(lastCmd, <<" ", "-v", " ", "claracore-", hardwareType,
                               "-downloads:/app/downloads", " ">>)
        /\ SubSeq(lastCmd, Len(lastCmd) - 1, Len(lastCmd))
             = <<"clara17verse/claracore:", hardwareType>>
        /\ Atoms(lastCmd) \cap DeviceWords = ExpectedDeviceWords(hardwareType)

\* C28 witness: the run command of a hardware kind the builder does not know
\* is the awaited command.
C28_Witness ==
    /\ pc = "dockerRun"
    /\ sent
    /\ hardwareType = "tpu"
    /\ lastCmd # Empty

----------------------------------------------------------------------------
(* the deploy IPC handler and the stop callback *)

\* C29: in the deploy handler set up with a stop callback, the service's
\* deploy is called only after the callback has come back; when the callback
\* throws the service is never called and the handler returns a failure;
\* and a stop result that lists per-service errors does not keep the handler
\* from calling the service.
C29_DeployAfterStop ==
    (ipcHandler = "remote-server:deploy" /\ ipcHasStop) =>
        /\ "service" \in Atoms(ipcTrace)
             => SubSeq(ipcTrace, 1, 3) = <<"stop", "stopped", "service">>
        /\ "stop-threw" \in Atoms(ipcTrace)
             => /\ "service" \notin Atoms(ipcTrace)
                /\ ipcPc = "done"
                /\ ipcReturn.how = "returned"
                /\ ~ipcReturn.success
        /\ ipcStopResult.errors # {} => "service" \in Atoms(ipcTrace)

\* C29 witness: the callback reported services it could not stop, and the
\* deployment was started and has returned.
C29_Witness ==
    /\ ipcHandler = "remote-server:deploy"
    /\ ipcHasStop
    /\ ipcStopResult.errors # {}
    /\ ipcTrace = <<"stop", "stopped", "service", "returned">>

----------------------------------------------------------------------------
(* RemoteServerSetup: the log listener of a deployment *)

\* C21: the log listener startDeployment registers is removed once the call
\* has finished, however it finished (success, failure, throw): while no
\* deployment is running no listener is registered, so none is left when the
\* next deployment starts.
C21_ListenerRemoved ==
    uiPc = "idle" => uiListeners = 0

----------------------------------------------------------------------------
(* ClaraCoreService: one start at a time, one process at a time *)

\* the calls that are inside start(), past its guards and not yet finished
StartsInProgress ==
    { id \in CallIds :
        ccCalls[id].pc \in {"portCheck", "isClara", "kill", "portRecheck", "health"} }

\* the processes the service spawned that are still running
LiveProcesses == { p \in Pids : ccProcs[p] = "live" }

\* C30: ClaraCoreService never has two start attempts in progress and never
\* has two processes it spawned running at once, under every interleaving of
\* start(), stop(), restart(), process exits and auto-restart timers.
C30_OneStartOneProcess ==
    /\ Cardinality(StartsInProgress) <= 1
    /\ Cardinality(LiveProcesses) <= 1

----------------------------------------------------------------------------
(* Claims about ClaraCoreService left to itself, checked under SpecCcAuto *)

\* C31: after one start() and with nobody calling start() or restart()
\* again, at most maxRestartAttempts (3) automatic restarts are ever scheduled
C31_AutoRestartsBounded == ccScheduled <= MaxRestartAttempts

----------------------------------------------------------------------------
(* Claims about ClaraCoreService under start, stop and restart calls,
   checked under SpecCc *)

\* a start() made by the auto-restart timer spawns the process
AutoRestartSpawns ==
    \E id \in CallIds :
        /\ ccCalls[id].op = "timerStart"
        /\ ccCalls[id].pc # "health"
        /\ ccCalls'[id].pc = "health"

\* C32: from a call of stop() until start() is entered again, no auto-restart
\* timer is pending, no exit schedules a restart and no automatic restart
\* spawns the process
C32_NoRestartAfterStop ==
    [][ /\ ccStopped' => ccTimers' = 0
        /\ ccStopped => ccScheduled' = ccScheduled
        /\ ccStopped => ~AutoRestartSpawns ]_vars

\* C38: when a start() call that got past its guards finishes, by returning
\* or by throwing, isStarting is false
C38_StartingClearedAtEnd ==
    [][ \A id \in StartsInProgress :
            ccCalls'[id].pc \in {"returned", "threw"} => ~ccIsStarting' ]_vars

\* the stop() calls that returned without error and after which no call of
\* start() or restart() has been made
StoppedAndLeftAlone ==
    { s \in CallIds :
        /\ ccCalls[s].op = "stop"
        /\ ccCalls[s].pc = "returned"
        /\ \A j \in CallIds : j > s => ccCalls[j].op \in {"none", "stop"} }

\* C39: after stop() has returned without error and until start() or
\* restart() is called again, isRunning is false, process is null and no
\* process is spawned
C39_StoppedStaysStopped ==
    [][ StoppedAndLeftAlone # {} =>
          /\ ~ccIsRunning /\ ccProcess = 0
          /\ \A p \in Pids : ccProcs[p] = "none" => ccProcs'[p] = "none" ]_vars

----------------------------------------------------------------------------
(* deploy: one container name and one image for the whole invocation *)

\* the container a docker command of the deployment names
ContainerIn(l, cmd) ==
    CASE l = "dockerStop" -> After(cmd, <<"stop", " ">>)
      [] l = "dockerRm" -> After(cmd, <<"rm", " ">>)
      [] l = "dockerRun" -> After(cmd, <<"--name", " ">>)
      [] l = "dockerPs" -> After(cmd, <<"name=">>)
      [] l = "dockerLogs" -> After(cmd, <<"logs", " ">>)
      [] l = "dockerInspect" -> After(cmd, <<"inspect", " ">>)
      [] OTHER -> Empty

ContainerLabels ==
    {"dockerStop", "dockerRm", "dockerRun", "dockerPs", "dockerLogs", "dockerInspect"}

\* the image a docker command of the deployment names
ImageIn(l, cmd) ==
    CASE l = "dockerPull" -> After(cmd, <<"pull", " ">>)
      [] l = "dockerRun" -> SubSeq(cmd, Len(cmd) - 1, Len(cmd))
      [] OTHER -> Empty

\* C33: in one deploy invocation the cleanup, run, verification and
\* diagnostic commands all name the container claracore-<kind requested>,
\* which is also the containerName of a successful result, and the pull and
\* the run commands both name the image clara17verse/claracore:<kind requested>
C33_OneNameOneImage ==
    /\ (pc \in ContainerLabels /\ lastCmd # Empty)
         => ContainerIn(pc, lastCmd) = <<"claracore-", hardwareType>>
    /\ (pc \in {"dockerPull", "dockerRun"} /\ lastCmd # Empty)
         => ImageIn(pc, lastCmd) = <<"clara17verse/claracore:", hardwareType>>
    /\ result.success => result.containerName = <<"claracore-", hardwareType>>

\* C33 witness: a rocm deployment has succeeded
C33_Witness ==
    /\ result.success
    /\ hardwareType = "rocm"
    /\ result.containerName = <<"claracore-", "rocm">>

----------------------------------------------------------------------------
(* deploy: nothing is sent to the host once the invocation has settled *)

\* C35: once a deploy invocation has settled, by its result, by the
\* deployment timeout or by an SSH 'error' event, each further run of its
\* handler hands no command to the remote host: the commands in flight only
\* go down by the one whose stream has closed
C35_NoCommandAfterSettled ==
    [][ settled # "pending" =>
          /\ inFlight' <= StreamClosed(inFlight, sent)
          /\ sent' => (sent /\ pc' = pc /\ lastCmd' = lastCmd) ]_vars

\* C35 witness: the watchdog settled the invocation while a command was
\* running; the handler has since come back and gone on to its next command,
\* which was not sent
C35_Witness ==
    /\ settled = "rejected"
    /\ pc \in Labels \ SleepLabels
    /\ lastCmd # Empty
    /\ ~sent
    /\ inFlight = 0

----------------------------------------------------------------------------
(* testSetup: what the 30-second watchdog can fail *)

\* C36: testSetup fails with 'Connection timeout after 30 seconds' only
\* while the SSH session is not yet established: once it is ready the
\* watchdog no longer fails the invocation
C36_TimeoutOnlyWhileConnecting ==
    [][ (/\ testSettled = "pending"
         /\ testSettled' # "pending"
         /\ testResult'.error = TestTimeoutError)
        => testConn = "connecting" ]_vars

----------------------------------------------------------------------------
(* overlapping deploy invocations and the stored secret *)

\* C34: every elevated command of an invocation is composed with the secret
\* of that invocation's own config, and an invocation that may still issue
\* elevated commands finds a secret stored, also when another invocation on
\* the same instance has started or completed meanwhile
C34_OwnSecretKept ==
    /\ ovCmd # Empty
         => Includes(ovCmd, <<"echo", " ", "'">> \o EscapePassword(ovConfig[ovBy])
                              \o <<"'", " ", "|">>)
    /\ \A i \in OvIds : (ovPc[i] = "running" /\ ovLeft[i] > 0) => ovSudo.set

----------------------------------------------------------------------------
(* deploy after deploy on one host, checked under SpecHost *)

\* C37: after any sequence of successful deployments, of whatever kinds, the
\* cleanup of a further deploy leaves no container that conflicts with the
\* new one on its name or on the published port, and the further deploy does
\* not fail
C37_CleanupClearsTheWay ==
    /\ hdPc = "dockerRun" =>
         /\ hostContainers[ContainerName(hdKind)] = "absent"
         /\ ~PortTaken(hostContainers)
    /\ hdOutcome # "failed"

====
